---- MODULE Spec2Model ----
(***************************************************************************)
(* Delegation broker and task orchestration engine of the                  *)
(* a2a-reference-implementation sample.                                    *)
(*                                                                         *)
(*   SpecGraph    : the LangGraph workflow of agents/orchestrator/graph.py *)
(*                  as driven by OrchestratorAgent.run_with_langgraph.     *)
(*   SpecWorkflow : OrchestratorAgent.process_workflow.                    *)
(*   SpecActor    : concurrent AsgardeoClient.get_actor_token callers.     *)
(*   SpecBroker   : TokenBroker sessions: create_session, handle_callback. *)
(*   SpecExchange : TokenBroker.exchange_token_for_agent.                  *)
(*   SpecRun      : the /api/chat route: get_demo_token, then the workflow *)
(*                  of SpecGraph for the token it returned.                *)
(*   SpecRequests : concurrent requests to the A2A endpoint, handled by the *)
(*                  one OrchestratorExecutor; cancel.                      *)
(*   SpecInvoke   : the steps of a run from the agent key and the scopes   *)
(*                  to the request posted to the agent.                    *)
(*   SpecAuth     : the auth managers of the hotel booking sample: token   *)
(*                  cache, pending authorizations, callback and timeout.   *)
(* SpecGraphFair is SpecGraph with the fairness of an awaited run.         *)
(*                                                                         *)
(* Every specification owns a group of variables and leaves the other      *)
(* groups unchanged.                                                       *)
(***************************************************************************)
EXTENDS Integers, Sequences, FiniteSets, TLC

(***************************************************************************)
(* Bounds of the model.                                                    *)
(***************************************************************************)
MaxPlanLen == 3
MaxStep == 2
MaxCallers == 2
MaxAcquisitions == 2
MaxTime == 2
MaxSessions == 2
MaxCallbacks == 2
MaxExchanges == 2
MaxRequests == 2
MaxRunSteps == 2
MaxTokenRequests == 2
MaxCallbackCalls == 2
MaxClock == 1

\* sdk/auth.py line 61: the margin of is_expired, and the lifetime of a token,
\* in the unit of the clock.
ExpiryMargin == 1
TokenLifetime == 2

(***************************************************************************)
(* Python's None for an integer-valued dictionary entry (the value of      *)
(* dict.get("step") when the entry is null) and for a string-valued one.   *)
(***************************************************************************)
NoStep == 0
None == "None"

(***************************************************************************)
(* Text.  A text is modelled by the set of the phrases that occur in it as *)
(* substrings, written as they occur (with their case).  str.lower() maps  *)
(* every phrase to its lower-case form, `kw in text` is membership.        *)
(***************************************************************************)
Lower(w) ==
    CASE w = "DENIED" -> "denied"
      [] w = "Approval" -> "approval"
      [] w = "HR" -> "hr"
      [] w = "Agent" -> "agent"
      [] w = "Sub" -> "sub"
      [] w = "Manager" -> "manager"
      [] OTHER -> w

LowerText(text) == {Lower(w) : w \in text}

Contains(text, kw) == kw \in text

(***************************************************************************)
(* The plan.  A task of the plan is {step, agent_name}; agent names are    *)
(* the sets of the words they consist of.                                  *)
(***************************************************************************)
AgentNames == { {"Approval", "Agent"}, {"HR", "Agent"} }

StepValues == {NoStep} \cup (1 .. MaxStep)

Tasks == [step : StepValues, agent_name : AgentNames]

RECURSIVE SeqsUpTo(_, _)
SeqsUpTo(S, n) ==
    IF n = 0 THEN { <<>> }
    ELSE LET shorter == SeqsUpTo(S, n - 1)
         IN  shorter \cup { Append(s, x) : s \in { t \in shorter : Len(t) = n - 1 }, x \in S }

Plans == SeqsUpTo(Tasks, MaxPlanLen)

(***************************************************************************)
(* What one step meets when it runs: the token exchange raises, or the     *)
(* agent call returns a dictionary with an "error" entry (a string, or the *)
(* error object of a JSON-RPC reply, which is no string), or a "result"    *)
(* entry with a text.  Approval agents answer with every combination of    *)
(* the keywords, the other agents with a sample of them.                   *)
(***************************************************************************)
ApprovalOutcomes ==
    { [kind |-> "exchange_error", isStr |-> TRUE,  text |-> {"rejected"}],
      [kind |-> "agent_result",   isStr |-> TRUE,  text |-> {"ok"}],
      [kind |-> "agent_result",   isStr |-> TRUE,  text |-> {"approved"}],
      [kind |-> "agent_result",   isStr |-> TRUE,  text |-> {"DENIED"}],
      [kind |-> "agent_result",   isStr |-> TRUE,  text |-> {"approved", "denied"}],
      [kind |-> "agent_error",    isStr |-> TRUE,  text |-> {"error"}],
      [kind |-> "agent_error",    isStr |-> FALSE, text |-> {"failed"}] }

OtherOutcomes ==
    { [kind |-> "exchange_error", isStr |-> TRUE,  text |-> {"rejected"}],
      [kind |-> "agent_result",   isStr |-> TRUE,  text |-> {"DENIED"}] }

Outcomes(agent_name) ==
    IF "Approval" \in agent_name THEN ApprovalOutcomes ELSE OtherOutcomes

VARIABLES
    pc,                  \* the node of the graph that runs next
    access_token,        \* state["access_token"]
    task_plan,           \* state["task_plan"]
    current_task_index,  \* state["current_task_index"] (0-based)
    task_results,        \* state["task_results"]
    approval_decisions,  \* state["approval_decisions"]
    final_response,      \* state["final_response"]
    error,               \* state["error"]
    run_result,          \* what run_with_langgraph returns
    exchange_calls,      \* plan positions for which exchange_token_for_agent was called
    agent_calls,         \* plan positions for which call_agent was called
    outcomes,            \* what the step at each position met ("skipped" if it did not run)
    planned,             \* how plan_tasks_node ended: "no", "plan", "not_json", "raised"
    aggregated           \* aggregate_results_node has run

gvars == <<pc, access_token, task_plan, current_task_index, task_results,
           approval_decisions, final_response, error, run_result,
           exchange_calls, agent_calls, outcomes, planned, aggregated>>

VARIABLES
    wf_pc,               \* process_workflow: "decompose", "loop", "returned"
    tasks,               \* the tasks decompose_to_tasks returned
    results,             \* the results list of process_workflow
    wf_result,           \* what process_workflow returns
    wf_exchange_calls,   \* task positions for which call_agent exchanged a token
    wf_agent_posts,      \* task positions for which call_agent posted to the agent
    wf_outcomes          \* what the call of each task met

wvars == <<wf_pc, tasks, results, wf_result, wf_exchange_calls, wf_agent_posts, wf_outcomes>>

VARIABLES
    a_pc,                \* per caller of get_actor_token: where its call stands
    a_ret,               \* per caller: the ActorToken its last call returned
    client_actor_token,  \* AsgardeoClient._actor_token
    now,                 \* datetime.utcnow()
    backend_calls,       \* per handshake step: the requests sent to the identity server
    acquisitions,        \* the runs of _fetch_agent_actor_token started
    issued,              \* the access tokens the identity server has issued
    overlapped,          \* the pairs of callers whose current calls ran at the same time
    a_trace              \* per caller: the handshake requests of its current acquisition

avars == <<a_pc, a_ret, client_actor_token, now, backend_calls, acquisitions, issued,
           overlapped, a_trace>>

VARIABLES
    sessions,            \* TokenBroker._sessions: session id -> UserSession
    broker_actor_token,  \* TokenBroker._actor_token
    audit_log,           \* TokenBroker._audit_log
    token_exchanger_configured,  \* settings: both token exchanger credentials are set
    callback_ok,         \* the sessions for which a handle_callback has returned
    cb_result,           \* the last handle_callback: its arguments, its calls, its end
    callbacks,           \* the handle_callback calls made
    delegated_issued,    \* the delegated tokens the identity server has issued
    sent,                \* the token-exchange requests sent, each with the call's scopes
    ex_result,           \* how the last exchange_token_for_agent ended, and what it called
    agent_fetches        \* the actor-token acquisitions exchange_token_for_agent started

bvars == <<sessions, broker_actor_token, audit_log, token_exchanger_configured,
           callback_ok, cb_result, callbacks, delegated_issued, sent, ex_result,
           agent_fetches>>

VARIABLES
    r_pc,                \* per request to the orchestrator: where it stands
    r_bearer,            \* per request: the token of its Authorization header (0: none)
    current_token,       \* OrchestratorExecutor._current_token (0: None)
    r_token,             \* per request: the access_token its run was started with
    r_started,           \* per request: the steps its run has started
    r_recorded,          \* per request: the steps of its run whose result is recorded
    r_exchanged,         \* per request: the source tokens its steps have exchanged
    r_cancel             \* per request: <<n>> once cancel was called, n steps started then

rvars == <<r_pc, r_bearer, current_token, r_token, r_started, r_recorded, r_exchanged,
           r_cancel>>

VARIABLES
    i_step,              \* the steps execute_task_node has run (the current one is the last)
    i_last,              \* the last step: its task, its agent key, scopes, exchange and call
    i_tokens,            \* per step: the token its exchange returned (0: it raised)
    i_posts              \* the requests posted to agents, each with its step and bearer

ivars == <<i_step, i_last, i_tokens, i_posts>>

VARIABLES
    impl,                \* the manager that runs: "autogen" (AutogenAuthManager) or "sdk" (AuthManager)
    clock,               \* time.time()
    token_store,         \* TokenManager.token_store: cache key -> OAuthToken
    pending_auths,       \* _pending_auths: state -> the config of its authorization
    futures,             \* per state created so far: the asyncio.Future of its authorization
    q_pc,                \* per call of get_oauth_token: where it stands
    q_config,            \* per call: its AuthConfig
    q_state,             \* per call: the state of its authorization (0: none)
    q_lookup,            \* per call: what get_token found and did
    q_result,            \* per call: what it returned or raised
    k_pc,                \* per call of process_callback: where it stands
    k_state,             \* per call: its state argument (0: not called)
    k_config,            \* per call: the scopes and resource it popped
    k_token,             \* per call: the token _fetch_oauth_token returned to it
    k_result,            \* per call: what it returned or raised
    oauth_issued         \* the tokens the identity server has issued

mvars == <<impl, clock, token_store, pending_auths, futures, q_pc, q_config, q_state,
           q_lookup, q_result, k_pc, k_state, k_config, k_token, k_result, oauth_issued>>

vars == <<gvars, wvars, avars, bvars, rvars, ivars, mvars>>

(***************************************************************************)
(* graph.py: execute_task_node, the denial check of lines 192-201.         *)
(* The position in approval_decisions of the first denied decision linked  *)
(* to current_step, 0 if there is none.                                    *)
(***************************************************************************)
\* Variants of the denial check: only the first recorded decision is looked at;
\* the status of the decision is not looked at.
denied_approval_first_only(decisions, current_step) ==
    IF /\ Len(decisions) > 0
       /\ decisions[1].linked_task_step = current_step
       /\ decisions[1].status = "denied"
    THEN 1 ELSE 0

denied_approval_any_status(decisions, current_step) ==
    LET hits == { k \in 1 .. Len(decisions) : decisions[k].linked_task_step = current_step }
    IN  IF hits = {} THEN 0
        ELSE CHOOSE k \in hits : \A j \in hits : k <= j

denied_approval(decisions, current_step) ==
    LET hits == { k \in 1 .. Len(decisions) :
                    /\ decisions[k].linked_task_step = current_step
                    /\ decisions[k].status = "denied" }
    IN  IF hits = {} THEN 0
        ELSE CHOOSE k \in hits : \A j \in hits : k <= j

(***************************************************************************)
(* graph.py lines 329-339: the decision an approval step's text yields.    *)
(***************************************************************************)
IsApprovalName(agent_name) == Contains(LowerText(agent_name), "approval")

\* Variant of the classification: the denial keywords are looked for first.
decision_status_denial_first(result) ==
    LET result_lower == LowerText(result)
    IN  IF \/ Contains(result_lower, "denied")
           \/ Contains(result_lower, "rejected")
           \/ Contains(result_lower, "failed")
           \/ Contains(result_lower, "error")
        THEN "denied"
        ELSE IF Contains(result_lower, "approved") \/ Contains(result_lower, "approval granted")
        THEN "approved"
        ELSE None

decision_status(result) ==
    LET result_lower == LowerText(result)
    IN  IF Contains(result_lower, "approved") \/ Contains(result_lower, "approval granted")
        THEN "approved"
        ELSE IF \/ Contains(result_lower, "denied")
                \/ Contains(result_lower, "rejected")
                \/ Contains(result_lower, "failed")
                \/ Contains(result_lower, "error")
        THEN "denied"
        ELSE None

(***************************************************************************)
(* graph.py lines 343-346: the step the decision of position task_idx is   *)
(* linked to.                                                              *)
(***************************************************************************)
\* Variant of the link: the decision is linked to the approval task itself.
linked_task_step_own(plan, task_idx) == plan[task_idx + 1].step

linked_task_step(plan, task_idx) ==
    LET next_task_idx == task_idx + 1
    IN  IF next_task_idx < Len(plan) THEN plan[next_task_idx + 1].step ELSE NoStep

(***************************************************************************)
(* graph.py: should_continue_execution.                                    *)
(***************************************************************************)
\* Variant of the routing: the loop stops one task early.
should_continue_one_early(current_idx, plan) ==
    IF current_idx + 1 < Len(plan) THEN "execute_task" ELSE "aggregate"

\* Variant of the routing: the loop is never left.
should_continue_never_aggregate(current_idx, plan) == "execute_task"

should_continue_execution(current_idx, plan) ==
    IF current_idx < Len(plan) THEN "execute_task" ELSE "aggregate"

(***************************************************************************)
(* graph.py lines 222 and 368: the index execute_task_node returns.        *)
(***************************************************************************)
\* Variant of the index: the task after the next one is run next.
next_task_index_skip_one(task_idx) == task_idx + 2

\* Variant of the index: it is not advanced.
next_task_index_stay(task_idx) == task_idx

next_task_index(task_idx) == task_idx + 1

(***************************************************************************)
(* graph.py line 364: the approval decisions the except branch returns.    *)
(***************************************************************************)
\* Variant of the except branch: it starts the decisions afresh.
decisions_after_exception_reset(decisions) == <<>>

decisions_after_exception(decisions) == decisions

(***************************************************************************)
(* agent.py line 832: the success flag of the result of run_with_langgraph.*)
(***************************************************************************)
\* Variant of the flag: the run succeeded only if every step did.
run_success_every_step(final_state) ==
    /\ final_state.error = None
    /\ \A i \in 1 .. Len(final_state.task_results) : final_state.task_results[i].success

run_success(final_state) == final_state.error = None

(***************************************************************************)
(* The task_result dictionaries of execute_task_node.                      *)
(***************************************************************************)
SkippedResult(task, reason) ==
    [step |-> task.step, agent |-> task.agent_name,
     result |-> {"SKIPPED", "Approval denied"} \cup reason,
     success |-> FALSE, skipped |-> TRUE]

RunResult(task, result, success) ==
    [step |-> task.step, agent |-> task.agent_name,
     result |-> result, success |-> success, skipped |-> FALSE]

ExceptionText == {"exception"}

(***************************************************************************)
(* graph.py lines 267-364: what the try block of execute_task_node leaves  *)
(* for the step at task_idx meeting outcome o: the task_result and the     *)
(* approval decisions.                                                     *)
(***************************************************************************)
TryBlock(plan, task_idx, decisions, o) ==
    LET task == plan[task_idx + 1]
        failed == [task_result |-> RunResult(task, ExceptionText, FALSE),
                   approval_decisions |-> decisions_after_exception(decisions)]
        status == decision_status(o.text)
    IN  IF o.kind = "exchange_error" THEN failed
        ELSE IF ~IsApprovalName(task.agent_name) THEN
            [task_result |-> RunResult(task, o.text, o.kind = "agent_result"),
             approval_decisions |-> decisions]
        ELSE IF status = "denied" /\ ~o.isStr THEN failed   \* result[:100] raises
        ELSE
            [task_result |-> RunResult(task, o.text, o.kind = "agent_result"),
             approval_decisions |->
                IF status = None THEN decisions
                ELSE Append(decisions,
                            [task |-> task_idx, status |-> status, reason |-> o.text,
                             linked_task_step |-> linked_task_step(plan, task_idx)])]

(***************************************************************************)
(* graph.py lines 385-403: the summary of one result.                      *)
(***************************************************************************)
Summary(task_result) ==
    [status |-> IF task_result.success THEN "ok" ELSE "fail",
     step |-> task_result.step, agent |-> task_result.agent,
     result |-> task_result.result]

\* Variant of the summary: only the results of the successful steps are listed.
aggregate_results_successes(rs) ==
    LET ok(r) == r.success
        kept == SelectSeq(rs, ok)
    IN  [i \in 1 .. Len(kept) |-> Summary(kept[i])]

aggregate_results(rs) == [i \in 1 .. Len(rs) |-> Summary(rs[i])]

----------------------------------------------------------------------------
(***************************************************************************)
(* SpecGraph: run_with_langgraph -> run_orchestrator_workflow -> graph.    *)
(***************************************************************************)
\* run_with_langgraph has not returned.
NotReturned ==
    [success |-> FALSE, error |-> "not returned", final_response |-> <<>>,
     task_results |-> <<>>, task_plan |-> <<>>]

InitGraphVars ==
    /\ pc = "start"
    /\ access_token \in {None, "user_token"}
    /\ task_plan = <<>>
    /\ current_task_index = 0
    /\ task_results = <<>>
    /\ approval_decisions = <<>>
    /\ final_response = <<>>
    /\ error = None
    /\ run_result = NotReturned
    /\ exchange_calls = {}
    /\ agent_calls = {}
    /\ outcomes = <<>>
    /\ planned = "no"
    /\ aggregated = FALSE

\* agent.py lines 807-816: the authentication check of run_with_langgraph.
NotAuthenticated ==
    /\ pc = "start"
    /\ access_token = None
    /\ pc' = "returned"
    /\ run_result' = [success |-> FALSE, error |-> "Not authenticated",
                      final_response |-> <<>>, task_results |-> <<>>, task_plan |-> <<>>]
    /\ UNCHANGED <<access_token, task_plan, current_task_index, task_results,
                   approval_decisions, final_response, error, exchange_calls,
                   agent_calls, outcomes, planned, aggregated>>

\* agent.py lines 818-828 and graph.py lines 501-521: the graph is entered.
StartWorkflow ==
    /\ pc = "start"
    /\ access_token # None
    /\ pc' = "discover_agents"
    /\ UNCHANGED <<access_token, task_plan, current_task_index, task_results,
                   approval_decisions, final_response, error, run_result,
                   exchange_calls, agent_calls, outcomes, planned, aggregated>>

\* graph.py: discover_agents_node.
DiscoverAgents ==
    /\ pc = "discover_agents"
    /\ pc' = "plan_tasks"
    /\ UNCHANGED <<access_token, task_plan, current_task_index, task_results,
                   approval_decisions, final_response, error, run_result,
                   exchange_calls, agent_calls, outcomes, planned, aggregated>>

\* graph.py: plan_tasks_node, the reply of the LLM parses to a plan.
PlanTasks ==
    /\ pc = "plan_tasks"
    /\ \E plan \in Plans : task_plan' = plan
    /\ current_task_index' = 0
    /\ task_results' = <<>>
    /\ planned' = "plan"
    /\ pc' = "execute_task"
    /\ UNCHANGED <<access_token, approval_decisions, final_response, error,
                   run_result, exchange_calls, agent_calls, outcomes, aggregated>>

\* graph.py lines 158-163: the reply is no JSON, the plan is empty.
PlanTasksNotJson ==
    /\ pc = "plan_tasks"
    /\ task_plan' = <<>>
    /\ current_task_index' = 0
    /\ task_results' = <<>>
    /\ planned' = "not_json"
    /\ pc' = "execute_task"
    /\ UNCHANGED <<access_token, approval_decisions, final_response, error,
                   run_result, exchange_calls, agent_calls, outcomes, aggregated>>

\* graph.py lines 154 and 524-530: the call of the LLM raises, the graph run
\* raises, and run_orchestrator_workflow returns the initial state with the error.
PlanTasksRaises ==
    /\ pc = "plan_tasks"
    /\ pc' = "END"
    /\ task_plan' = <<>>
    /\ current_task_index' = 0
    /\ task_results' = <<>>
    /\ approval_decisions' = <<>>
    /\ error' = "llm error"
    /\ planned' = "raised"
    /\ final_response' = << [status |-> "Workflow failed", step |-> NoStep,
                             agent |-> {}, result |-> {"llm error"}] >>
    /\ UNCHANGED <<access_token, run_result, exchange_calls, agent_calls, outcomes,
                   aggregated>>

\* graph.py lines 184-187: the index is past the plan, the state is returned as it is.
ExecuteTaskPastEnd ==
    /\ pc = "execute_task"
    /\ current_task_index >= Len(task_plan)
    /\ pc' = should_continue_execution(current_task_index, task_plan)
    /\ UNCHANGED <<access_token, task_plan, current_task_index, task_results,
                   approval_decisions, final_response, error, run_result,
                   exchange_calls, agent_calls, outcomes, planned, aggregated>>

\* graph.py lines 192-224: the approval of this task was denied.
ExecuteTaskSkipped ==
    /\ pc = "execute_task"
    /\ current_task_index < Len(task_plan)
    /\ LET current_task == task_plan[current_task_index + 1]
           d == denied_approval(approval_decisions, current_task.step)
       IN  /\ d # 0
           /\ task_results' = Append(task_results,
                                     SkippedResult(current_task, approval_decisions[d].reason))
    /\ current_task_index' = next_task_index(current_task_index)
    /\ outcomes' = Append(outcomes, [kind |-> "skipped", isStr |-> TRUE, text |-> {}])
    /\ pc' = should_continue_execution(current_task_index', task_plan)
    /\ UNCHANGED <<access_token, task_plan, approval_decisions, final_response, error,
                   run_result, exchange_calls, agent_calls, planned, aggregated>>

\* graph.py lines 226-374: the token is exchanged and the agent is called.
ExecuteTaskRun ==
    /\ pc = "execute_task"
    /\ current_task_index < Len(task_plan)
    /\ denied_approval(approval_decisions, task_plan[current_task_index + 1].step) = 0
    /\ \E o \in Outcomes(task_plan[current_task_index + 1].agent_name) :
          LET r == TryBlock(task_plan, current_task_index, approval_decisions, o)
          IN  /\ task_results' = Append(task_results, r.task_result)
              /\ approval_decisions' = r.approval_decisions
              /\ exchange_calls' = exchange_calls \cup {current_task_index}
              /\ agent_calls' = IF o.kind = "exchange_error" THEN agent_calls
                                ELSE agent_calls \cup {current_task_index}
              /\ outcomes' = Append(outcomes, o)
    /\ current_task_index' = next_task_index(current_task_index)
    /\ pc' = should_continue_execution(current_task_index', task_plan)
    /\ UNCHANGED <<access_token, task_plan, final_response, error, run_result, planned, aggregated>>

\* graph.py: aggregate_results_node.
Aggregate ==
    /\ pc = "aggregate"
    /\ final_response' = aggregate_results(task_results)
    /\ aggregated' = TRUE
    /\ pc' = "END"
    /\ UNCHANGED <<access_token, task_plan, current_task_index, task_results,
                   approval_decisions, error, run_result, exchange_calls,
                   agent_calls, outcomes, planned>>

\* agent.py lines 830-837: the structured result of run_with_langgraph.
ReturnResult ==
    /\ pc = "END"
    /\ run_result' = [success |-> run_success([error |-> error,
                                                 task_results |-> task_results]),
                      error |-> error,
                      final_response |-> final_response,
                      task_results |-> task_results, task_plan |-> task_plan]
    /\ pc' = "returned"
    /\ UNCHANGED <<access_token, task_plan, current_task_index, task_results,
                   approval_decisions, final_response, error, exchange_calls,
                   agent_calls, outcomes, planned, aggregated>>


----------------------------------------------------------------------------
(***************************************************************************)
(* SpecWorkflow: OrchestratorAgent.process_workflow.                       *)
(***************************************************************************)

(***************************************************************************)
(* What call_agent meets for one task: the agent is not discovered; the    *)
(* token exchange raises; the post fails (a status other than 200, a       *)
(* connection error or a timeout); the agent replies 200 with a "result"   *)
(* that holds a text, or with a "result" that is a list.                   *)
(***************************************************************************)
WorkflowOutcomes ==
    {"not_discovered", "exchange_error", "agent_failed", "agent_result", "result_list"}

\* agent.py lines 235-250: the agent key call_agent derives from the agent's name.
agent_type_key(agent_name) ==
    LET name_lower == LowerText(agent_name)
    IN  IF Contains(name_lower, "hr") THEN "hr_agent"
        ELSE IF Contains(name_lower, "it") THEN "it_agent"
        ELSE IF Contains(name_lower, "approval") THEN "approval_agent"
        ELSE IF Contains(name_lower, "booking") THEN "booking_agent"
        ELSE None

\* agent.py lines 221-345: the dictionary call_agent returns (it raises nothing).
call_agent(agent_name, o) ==
    IF o = "not_discovered" THEN [key |-> "error", text |-> {"Agent not discovered"}]
    ELSE IF agent_type_key(agent_name) = None
        THEN [key |-> "error", text |-> {"Unknown agent type"}]
    ELSE IF o = "exchange_error" THEN [key |-> "error", text |-> {"Token exchange failed"}]
    ELSE IF o = "agent_failed" THEN [key |-> "error", text |-> {"Agent error"}]
    ELSE IF o = "result_list" THEN [key |-> "result_list", text |-> {}]
    ELSE [key |-> "result", text |-> {"ok"}]

\* agent.py lines 347-369: _parse_agent_response; "raises" when result.get fails.
parse_agent_response(response) ==
    IF response.key = "result" THEN response.text
    ELSE IF response.key = "result_list" THEN {"raises"}
    ELSE {"Error:"} \cup response.text

\* agent.py lines 563-590: the result one iteration of the loop records.
workflow_result(task, o) ==
    LET response == call_agent(task.agent_name, o)
    IN  IF response.key = "result_list"
        THEN [step |-> task.step, agent |-> task.agent_name,
              status |-> "error", response |-> ExceptionText]
        ELSE [step |-> task.step, agent |-> task.agent_name,
              status |-> "success", response |-> parse_agent_response(response)]

GraphIdle == InitGraphVars /\ access_token = "user_token"

InitWorkflowVars ==
    /\ wf_pc = "decompose"
    /\ tasks = <<>>
    /\ results = <<>>
    /\ wf_result = [status |-> None, error |-> None]
    /\ wf_exchange_calls = {}
    /\ wf_agent_posts = {}
    /\ wf_outcomes = <<>>

\* agent.py lines 540-549: decompose_to_tasks returned a list of tasks.
DecomposeToTasks ==
    /\ wf_pc = "decompose"
    /\ \E plan \in Plans :
          /\ tasks' = plan
          /\ IF plan = <<>>
             THEN /\ wf_pc' = "returned"
                  /\ wf_result' = [status |-> "error",
                                   error |-> "Could not determine any tasks for the request."]
             ELSE /\ wf_pc' = "loop"
                  /\ UNCHANGED wf_result
    /\ UNCHANGED <<results, wf_exchange_calls, wf_agent_posts, wf_outcomes>>

\* agent.py lines 401-402 and 545-546: no agent is discovered.
DecomposeNoAgents ==
    /\ wf_pc = "decompose"
    /\ wf_pc' = "returned"
    /\ wf_result' = [status |-> "error", error |-> "No agents discovered"]
    /\ UNCHANGED <<tasks, results, wf_exchange_calls, wf_agent_posts, wf_outcomes>>

\* agent.py lines 552-590: one iteration of the loop over the tasks.
WorkflowStep ==
    /\ wf_pc = "loop"
    /\ Len(results) < Len(tasks)
    /\ LET pos == Len(results)
           task == tasks[pos + 1]
       IN  \E o \in WorkflowOutcomes :
              /\ results' = Append(results, workflow_result(task, o))
              /\ wf_outcomes' = Append(wf_outcomes, o)
              /\ wf_exchange_calls' =
                    IF o = "not_discovered" \/ agent_type_key(task.agent_name) = None
                    THEN wf_exchange_calls ELSE wf_exchange_calls \cup {pos}
              /\ wf_agent_posts' =
                    IF o \in {"agent_failed", "agent_result", "result_list"}
                       /\ agent_type_key(task.agent_name) # None
                    THEN wf_agent_posts \cup {pos} ELSE wf_agent_posts
    /\ UNCHANGED <<wf_pc, tasks, wf_result>>

\* agent.py lines 592-601: the loop is over, the results are returned.
WorkflowReturn ==
    /\ wf_pc = "loop"
    /\ Len(results) = Len(tasks)
    /\ wf_pc' = "returned"
    /\ wf_result' = [status |-> "success", error |-> None]
    /\ UNCHANGED <<tasks, results, wf_exchange_calls, wf_agent_posts, wf_outcomes>>

----------------------------------------------------------------------------
(***************************************************************************)
(* SpecActor: coroutines calling AsgardeoClient.get_actor_token on the one *)
(* client of the process (get_asgardeo_client), as TokenBroker.initialize  *)
(* does for every handle_callback that finds no actor token.  A coroutine  *)
(* runs until it awaits a reply of the identity server.                    *)
(***************************************************************************)
Callers == 1 .. MaxCallers

\* asgardeo.py line 495: the lifetime of an actor token, in ticks of `now`.
ExpiresIn == 2

NoToken == [token |-> 0, expires_at |-> 0]

\* asgardeo.py line 180: the cached actor token can be handed out.
cached_token_live(cached, time) == cached # NoToken /\ cached.expires_at > time

InFlight == { p \in Callers : a_pc[p] \in {"step1", "step2", "step3"} }

\* A handshake request: its step, the PKCE pair it uses (step 1 sends the
\* challenge, step 3 the verifier) and the reply it got.
Request(step, pkce) == [step |-> step, pkce |-> pkce, reply |-> "pending"]

\* The trace with the reply of its last request filled in.
Replied(trace, reply) == [trace EXCEPT ![Len(trace)].reply = reply]

\* Variant of the handshake: the agent is authenticated whatever step 1 returned.
after_step1_always_authenticate(reply) ==
    IF reply = "failure" THEN "failed" ELSE "step2"

\* asgardeo.py lines 245-265: what follows the reply to step 1.
after_step1(reply) ==
    CASE reply = "flow_id" -> "step2"
      [] reply = "code" -> "step3"
      [] OTHER -> "failed"

\* Variant of the handshake: a failure of step 2 is not noticed.
after_step2_continue(reply) == "step3"

\* asgardeo.py lines 262-277: what follows the reply to step 2.
after_step2(reply) == IF reply = "code" THEN "step3" ELSE "failed"

\* The request the acquisition sends when it moves on to `next`.
Sending(trace, next) ==
    CASE next = "step2" -> Append(trace, Request(2, trace[1].pkce))
      [] next = "step3" -> Append(trace, Request(3, trace[1].pkce))
      [] OTHER -> trace

Counted(calls, next) ==
    CASE next = "step2" -> [calls EXCEPT ![2] = @ + 1]
      [] next = "step3" -> [calls EXCEPT ![3] = @ + 1]
      [] OTHER -> calls

InitActorVars ==
    /\ a_pc = [p \in Callers |-> "idle"]
    /\ a_ret = [p \in Callers |-> NoToken]
    /\ client_actor_token = NoToken
    /\ now = 0
    /\ backend_calls = [n \in 1 .. 3 |-> 0]
    /\ acquisitions = 0
    /\ issued = 0
    /\ overlapped = {}
    /\ a_trace = [p \in Callers |-> <<>>]

\* asgardeo.py lines 178-181: get_actor_token finds a live cached token.
GetActorTokenCached(p) ==
    /\ a_pc[p] \in {"idle", "done", "failed"}
    /\ cached_token_live(client_actor_token, now)
    /\ a_pc' = [a_pc EXCEPT ![p] = "done"]
    /\ a_ret' = [a_ret EXCEPT ![p] = client_actor_token]
    /\ a_trace' = [a_trace EXCEPT ![p] = <<>>]
    /\ overlapped' = { pair \in overlapped : p \notin pair } \cup { {p, q} : q \in InFlight }
    /\ UNCHANGED <<client_actor_token, now, backend_calls, acquisitions, issued>>

\* asgardeo.py lines 180-187 and 242-253: no live token is cached, the handshake
\* is started with a new PKCE pair and its first request is sent.
GetActorTokenFetch(p) ==
    /\ a_pc[p] \in {"idle", "done", "failed"}
    /\ ~cached_token_live(client_actor_token, now)
    /\ acquisitions < MaxAcquisitions
    /\ a_pc' = [a_pc EXCEPT ![p] = "step1"]
    /\ a_ret' = [a_ret EXCEPT ![p] = NoToken]
    /\ acquisitions' = acquisitions + 1
    /\ a_trace' = [a_trace EXCEPT ![p] = <<Request(1, acquisitions + 1)>>]
    /\ backend_calls' = [backend_calls EXCEPT ![1] = @ + 1]
    /\ overlapped' = { pair \in overlapped : p \notin pair } \cup { {p, q} : q \in InFlight }
    /\ UNCHANGED <<client_actor_token, now, issued>>

\* asgardeo.py lines 254-273 and 315-352: the reply to step 1 is a flow id, or an
\* authorization code (the session is active), or a failure.
Step1Reply(p) ==
    /\ a_pc[p] = "step1"
    /\ \E reply \in {"flow_id", "code", "failure"} :
          LET next == after_step1(reply)
          IN  /\ a_pc' = [a_pc EXCEPT ![p] = next]
              /\ a_trace' = [a_trace EXCEPT ![p] = Sending(Replied(@, reply), next)]
              /\ backend_calls' = Counted(backend_calls, next)
    /\ UNCHANGED <<a_ret, client_actor_token, now, acquisitions, issued, overlapped>>

\* asgardeo.py lines 262-273 and 416-452: the reply to step 2 is an authorization
\* code or a failure.
Step2Reply(p) ==
    /\ a_pc[p] = "step2"
    /\ \E reply \in {"code", "failure"} :
          LET next == after_step2(reply)
          IN  /\ a_pc' = [a_pc EXCEPT ![p] = next]
              /\ a_trace' = [a_trace EXCEPT ![p] = Sending(Replied(@, reply), next)]
              /\ backend_calls' = Counted(backend_calls, next)
    /\ UNCHANGED <<a_ret, client_actor_token, now, acquisitions, issued, overlapped>>

\* asgardeo.py lines 489-501 and 189-191: step 3 yields the actor token, which
\* get_actor_token caches and returns.
Step3Token(p) ==
    /\ a_pc[p] = "step3"
    /\ LET token == [token |-> issued + 1, expires_at |-> now + ExpiresIn]
       IN  /\ client_actor_token' = token
           /\ a_ret' = [a_ret EXCEPT ![p] = token]
    /\ issued' = issued + 1
    /\ a_pc' = [a_pc EXCEPT ![p] = "done"]
    /\ a_trace' = [a_trace EXCEPT ![p] = Replied(@, "token")]
    /\ UNCHANGED <<now, backend_calls, acquisitions, overlapped>>

\* asgardeo.py lines 489-492 and 277-279: step 3 fails, the acquisition raises.
Step3Failure(p) ==
    /\ a_pc[p] = "step3"
    /\ a_pc' = [a_pc EXCEPT ![p] = "failed"]
    /\ a_trace' = [a_trace EXCEPT ![p] = Replied(@, "failure")]
    /\ UNCHANGED <<a_ret, client_actor_token, now, backend_calls, acquisitions, issued,
                   overlapped>>

\* Time passes.
Tick ==
    /\ now < MaxTime
    /\ now' = now + 1
    /\ UNCHANGED <<a_pc, a_ret, client_actor_token, backend_calls, acquisitions, issued,
                   overlapped, a_trace>>

----------------------------------------------------------------------------
(***************************************************************************)
(* SpecBroker: the TokenBroker of the process: its sessions, the OAuth     *)
(* callback and the per-agent token exchange.  A form value or a scope     *)
(* string is the sequence of its pieces, " " being the separator.          *)
(***************************************************************************)
SessionIds == 1 .. MaxSessions

\* token_broker.py line 36: no delegated token (None, or an empty string).
NoDelegatedToken == 0

\* asgardeo.py line 34: the lifetime of a delegated token, in ticks of `now`.
DelegatedExpiresIn == 2

\* token_broker.py lines 64-65: the agents of config.yaml; one has no agent_id.
agents_config ==
    [agent_key \in {"hr_agent", "it_agent"} |->
        [agent_id |-> IF agent_key = "hr_agent" THEN "hr-agent-id" ELSE ""]]

AgentKeys == DOMAIN agents_config \cup {"unknown_agent"}

TargetScopeInputs == { <<>>, <<"hr:read">>, <<"hr:read", "hr:write">> }

\* The scope strings of the identity server's token responses.
ResponseScopes == { <<>>, <<"openid", " ", "hr:read">> }

\* " ".join(pieces)
RECURSIVE Join(_)
Join(pieces) ==
    IF Len(pieces) = 0 THEN <<>>
    ELSE IF Len(pieces) = 1 THEN <<pieces[1]>>
    ELSE <<pieces[1], " ">> \o Join(Tail(pieces))

\* str.split()
Split(text) == SelectSeq(text, LAMBDA piece : piece # " ")

\* The authorization codes a callback request carries.
Codes == {"code_a", "code_b"}

\* The subject tokens the callers of exchange_token_for_agent pass.
SourceTokens == {1, 2}

\* token_broker.py lines 81-86: the session create_session stores; the PKCE pair
\* generate_pkce makes for it is the n-th one, like no other session's.
\* Variant of the new session: it holds a token from the start.
NewSession_with_token(n) == [pkce |-> n, delegated_token |-> 1, token_expires_at |-> 0]

NewSession(n) == [pkce |-> n, delegated_token |-> NoDelegatedToken, token_expires_at |-> 0]

\* token_broker.py lines 131-132
store_token_expiry_only(session, token_response) ==
    [session EXCEPT !.token_expires_at = token_response.expires_at]

store_token(session, token_response) ==
    [session EXCEPT !.delegated_token = token_response.access_token,
                    !.token_expires_at = token_response.expires_at]

\* token_broker.py lines 142-146
get_delegated_token(session_id) ==
    IF session_id \notin DOMAIN sessions
         \/ sessions[session_id].delegated_token = NoDelegatedToken
    THEN NoDelegatedToken
    ELSE sessions[session_id].delegated_token

\* token_broker.py lines 261-272
AuditEntry(operation, target_service, scopes) ==
    [operation |-> operation, target_service |-> target_service, scopes |-> scopes,
     success |-> TRUE]

\* asgardeo.py lines 583-597: the form perform_token_exchange posts; a parameter
\* that is left out is the empty set.
token_exchange_data(subject_token, actor_token, target_audience, target_scopes) ==
    [grant_type |-> "urn:ietf:params:oauth:grant-type:token-exchange",
     subject_token |-> subject_token,
     actor_token |-> IF actor_token # 0 THEN {actor_token} ELSE {},
     audience |-> IF target_audience # None THEN {target_audience} ELSE {},
     scope |-> IF target_scopes # <<>> THEN {Join(target_scopes)} ELSE {}]

\* A call handle_callback made to the identity server, and whether it succeeded.
\* token_broker.py lines 113 and 67-79: initialize -> get_actor_token.
InitializeCall(actor_token, ok) ==
    [call |-> "get_actor_token", code |-> "", code_verifier |-> 0,
     actor_token |-> actor_token.token, ok |-> ok, access_token |-> 0]

\* Variant of the request: the verifier of the first session is sent.
code_exchange_first_session(code, session, actor_token, ok, issued_token) ==
    [call |-> "code_exchange", code |-> code, code_verifier |-> sessions[1].pkce,
     actor_token |-> actor_token.token, ok |-> ok, access_token |-> issued_token]

\* token_broker.py lines 122-124 and asgardeo.py lines 121-128: the request of
\* exchange_code_for_delegated_token, with its outcome.
code_exchange(code, session, actor_token, ok, issued_token) ==
    [call |-> "code_exchange", code |-> code, code_verifier |-> session.pkce,
     actor_token |-> actor_token.token, ok |-> ok, access_token |-> issued_token]

\* Variant of the outcome: a rejected code exchange is not noticed.
callback_status_ignores_exchange(actor_token, reply) ==
    IF actor_token = NoToken THEN "raised" ELSE "returned"

\* token_broker.py lines 113-116 and asgardeo.py line 162: handle_callback raises
\* when initialize raises or the code exchange is rejected.
callback_status(actor_token, reply) ==
    IF actor_token = NoToken \/ reply # "token" THEN "raised" ELSE "returned"

InitBrokerVars ==
    /\ sessions = <<>>
    /\ broker_actor_token = NoToken
    /\ audit_log = <<>>
    /\ token_exchanger_configured \in BOOLEAN
    /\ callback_ok = {}
    /\ cb_result = [state |-> 0, code |-> "", status |-> "none", calls |-> <<>>]
    /\ callbacks = 0
    /\ delegated_issued = 0
    /\ sent = <<>>
    /\ ex_result = [agent_key |-> "", status |-> "none", rejected |-> FALSE, token |-> 0]
    /\ agent_fetches = <<>>

\* The broker of a process in which no session is ever created.
BrokerIdle == InitBrokerVars /\ token_exchanger_configured

\* token_broker.py lines 81-86: uuid4 gives an id no session has.
CreateSession ==
    /\ Len(sessions) < MaxSessions
    /\ sessions' = Append(sessions, NewSession(Len(sessions) + 1))
    /\ UNCHANGED <<broker_actor_token, audit_log, token_exchanger_configured, callback_ok,
                   cb_result, callbacks, delegated_issued, sent, ex_result, agent_fetches>>
    /\ UNCHANGED avars

\* token_broker.py lines 102-104: no session has the callback's state.
HandleCallbackUnknownState(code, state) ==
    /\ callbacks < MaxCallbacks
    /\ state \notin DOMAIN sessions
    /\ callbacks' = callbacks + 1
    /\ cb_result' = [state |-> state, code |-> code, status |-> "ValueError", calls |-> <<>>]
    /\ UNCHANGED <<sessions, broker_actor_token, audit_log, token_exchanger_configured,
                   callback_ok, delegated_issued, sent, ex_result, agent_fetches>>
    /\ UNCHANGED avars

\* token_broker.py lines 111-113 and 67-79, asgardeo.py lines 178-191: the actor
\* token handle_callback goes on with; NoToken when initialize raises.
callback_actor_token(init_ok) ==
    IF broker_actor_token # NoToken THEN broker_actor_token
    ELSE IF ~init_ok THEN NoToken
    ELSE IF cached_token_live(client_actor_token, now) THEN client_actor_token
    ELSE [token |-> issued + 1, expires_at |-> now + ExpiresIn]

\* token_broker.py lines 97-140, for the state of a session.
HandleCallback(code, state) ==
    /\ callbacks < MaxCallbacks
    /\ state \in DOMAIN sessions
    /\ callbacks' = callbacks + 1
    /\ \E init_ok \in BOOLEAN, reply \in {"token", "http_error"}, scope \in ResponseScopes :
          LET actor == callback_actor_token(init_ok)
              initialized == broker_actor_token = NoToken
              fetched == initialized /\ init_ok
                            /\ ~cached_token_live(client_actor_token, now)
              token_response == [access_token |-> delegated_issued + 1,
                                 scope |-> scope,
                                 expires_at |-> now + DelegatedExpiresIn]
              status == callback_status(actor, reply)
              calls == (IF initialized THEN <<InitializeCall(actor, init_ok)>> ELSE <<>>)
                       \o (IF actor = NoToken THEN <<>>
                           ELSE <<code_exchange(code, sessions[state], actor, reply = "token",
                                                IF reply = "token"
                                                THEN token_response.access_token ELSE 0)>>)
          IN  /\ broker_actor_token' = actor
              /\ client_actor_token' = IF fetched THEN actor ELSE client_actor_token
              /\ issued' = IF fetched THEN issued + 1 ELSE issued
              /\ cb_result' = [state |-> state, code |-> code, status |-> status,
                               calls |-> calls]
              /\ IF status = "returned"
                 THEN /\ sessions' = [sessions EXCEPT ![state] = store_token(@, token_response)]
                      /\ delegated_issued' = delegated_issued + 1
                      /\ audit_log' = Append(audit_log,
                                        AuditEntry("delegated_token_obtained", "orchestrator",
                                                   Split(token_response.scope)))
                      /\ callback_ok' = callback_ok \cup {state}
                 ELSE UNCHANGED <<sessions, delegated_issued, audit_log, callback_ok>>
    /\ UNCHANGED <<token_exchanger_configured, sent, ex_result, agent_fetches>>
    /\ UNCHANGED <<a_pc, a_ret, a_trace, now, backend_calls, acquisitions, overlapped>>

\* Variant of the checks: only the credentials of the token exchanger are checked.
exchange_refused_credentials_only(agent_key) == ~token_exchanger_configured

\* token_broker.py lines 178-201: the agent is unknown, or has no agent_id, or the
\* token exchanger credentials are not set.
exchange_refused(agent_key) ==
    IF agent_key \notin DOMAIN agents_config THEN TRUE
    ELSE agents_config[agent_key].agent_id = "" \/ ~token_exchanger_configured

\* token_broker.py lines 178-201: exchange_token_for_agent raises ValueError.
ExchangeTokenForAgentRefused(source_token, agent_key, target_scopes) ==
    /\ exchange_refused(agent_key)
    /\ ex_result' = [agent_key |-> agent_key, status |-> "ValueError",
                     rejected |-> FALSE, token |-> 0]
    /\ UNCHANGED <<sessions, broker_actor_token, audit_log, token_exchanger_configured,
                   callback_ok, cb_result, callbacks, delegated_issued, sent, agent_fetches>>
    /\ UNCHANGED avars

\* token_broker.py lines 203-258 and asgardeo.py lines 570-632: the actor token
\* of the agent is fetched, the exchange request is sent, and the exchanged
\* token is returned unless the identity server rejects the request.
ExchangeTokenForAgent(source_token, agent_key, target_scopes) ==
    /\ Len(agent_fetches) < MaxExchanges
    /\ ~exchange_refused(agent_key)
    /\ \E fetch \in {"token", "failure"}, reply \in {"token", "http_error"} :
          /\ agent_fetches' = Append(agent_fetches,
                                [agent_key |-> agent_key, at |-> now,
                                 expires_at |-> IF fetch = "token" THEN now + ExpiresIn
                                                ELSE now])
          /\ IF fetch = "failure"
             THEN /\ ex_result' = [agent_key |-> agent_key, status |-> "raised",
                                   rejected |-> FALSE, token |-> 0]
                  /\ UNCHANGED <<sent, audit_log, issued>>
             ELSE /\ sent' = Append(sent,
                               [target_scopes |-> target_scopes,
                                data |-> token_exchange_data(source_token, issued + 1,
                                                             None, target_scopes)])
                  /\ IF reply = "token"
                     THEN /\ issued' = issued + 2
                          /\ ex_result' = [agent_key |-> agent_key, status |-> "returned",
                                           rejected |-> FALSE, token |-> issued + 2]
                          /\ audit_log' = Append(audit_log,
                                            AuditEntry("token_exchange", agent_key,
                                                       target_scopes))
                     ELSE /\ issued' = issued + 1
                          /\ ex_result' = [agent_key |-> agent_key, status |-> "raised",
                                           rejected |-> TRUE, token |-> 0]
                          /\ UNCHANGED audit_log
    /\ UNCHANGED <<sessions, broker_actor_token, token_exchanger_configured, callback_ok,
                   cb_result, callbacks, delegated_issued>>
    /\ UNCHANGED <<a_pc, a_ret, a_trace, client_actor_token, now, backend_calls,
                   acquisitions, overlapped>>

----------------------------------------------------------------------------
(***************************************************************************)
(* SpecRun: a chat request (__main__.py api_chat) of a process in which a  *)
(* login was started, and has completed or not: the request takes the      *)
(* delegated token of the most recent session and runs the workflow.       *)
(***************************************************************************)
Max(S) == CHOOSE x \in S : \A y \in S : y <= x

\* token_broker.py lines 154-157: the sessions that hold a delegated token.
SessionsWithToken ==
    { i \in DOMAIN sessions : sessions[i].delegated_token # NoDelegatedToken }

\* token_broker.py lines 148-161: get_demo_token; NoDelegatedToken when it raises.
get_demo_token ==
    IF SessionsWithToken = {} THEN NoDelegatedToken
    ELSE sessions[Max(SessionsWithToken)].delegated_token

\* The broker after create_session and a handle_callback that returned at time 0.
BrokerLoggedIn ==
    /\ sessions = <<[pkce |-> 1, delegated_token |-> 1,
                     token_expires_at |-> DelegatedExpiresIn]>>
    /\ broker_actor_token = [token |-> 1, expires_at |-> ExpiresIn]
    /\ audit_log = <<AuditEntry("delegated_token_obtained", "orchestrator", <<>>)>>
    /\ token_exchanger_configured = TRUE
    /\ callback_ok = {1}
    /\ cb_result = [state |-> 1, code |-> "code_a", status |-> "returned",
                    calls |-> <<InitializeCall(broker_actor_token, TRUE),
                                code_exchange("code_a", sessions[1], broker_actor_token,
                                              TRUE, 1)>>]
    /\ callbacks = 1
    /\ delegated_issued = 1
    /\ sent = <<>>
    /\ ex_result = [agent_key |-> "", status |-> "none", rejected |-> FALSE, token |-> 0]
    /\ agent_fetches = <<>>

\* The asgardeo client of that process.
ClientLoggedIn ==
    /\ a_pc = [p \in Callers |-> "idle"]
    /\ a_ret = [p \in Callers |-> NoToken]
    /\ client_actor_token = [token |-> 1, expires_at |-> ExpiresIn]
    /\ now = 0
    /\ backend_calls = [n \in 1 .. 3 |-> 0]
    /\ acquisitions = 0
    /\ issued = 1
    /\ overlapped = {}
    /\ a_trace = [p \in Callers |-> <<>>]

\* The broker after create_session only: the login has not completed.
BrokerLoginStarted ==
    /\ sessions = <<NewSession(1)>>
    /\ broker_actor_token = NoToken
    /\ audit_log = <<>>
    /\ token_exchanger_configured = TRUE
    /\ callback_ok = {}
    /\ cb_result = [state |-> 0, code |-> "", status |-> "none", calls |-> <<>>]
    /\ callbacks = 0
    /\ delegated_issued = 0
    /\ sent = <<>>
    /\ ex_result = [agent_key |-> "", status |-> "none", rejected |-> FALSE, token |-> 0]
    /\ agent_fetches = <<>>

InitRunVars ==
    /\ pc = "api_chat"
    /\ access_token = None
    /\ task_plan = <<>>
    /\ current_task_index = 0
    /\ task_results = <<>>
    /\ approval_decisions = <<>>
    /\ final_response = <<>>
    /\ error = None
    /\ run_result = NotReturned
    /\ exchange_calls = {}
    /\ agent_calls = {}
    /\ outcomes = <<>>
    /\ planned = "no"
    /\ aggregated = FALSE

\* __main__.py line 206 and token_broker.py lines 159-161: no session holds a
\* token, get_demo_token raises and the request ends with an error.
ApiChatNoSession ==
    /\ pc = "api_chat"
    /\ get_demo_token = NoDelegatedToken
    /\ pc' = "returned"
    /\ run_result' = [success |-> FALSE, error |-> "No user session found",
                      final_response |-> <<>>, task_results |-> <<>>, task_plan |-> <<>>]
    /\ UNCHANGED <<access_token, task_plan, current_task_index, task_results,
                   approval_decisions, final_response, error, exchange_calls,
                   agent_calls, outcomes, planned, aggregated>>

\* __main__.py lines 206-236 and agent.py lines 761-776: the token of the most
\* recent session is handed to stream, which calls run_with_langgraph with it.
ApiChat ==
    /\ pc = "api_chat"
    /\ get_demo_token # NoDelegatedToken
    /\ access_token' = "user_token"
    /\ pc' = "start"
    /\ UNCHANGED <<task_plan, current_task_index, task_results, approval_decisions,
                   final_response, error, run_result, exchange_calls, agent_calls,
                   outcomes, planned, aggregated>>

----------------------------------------------------------------------------
(***************************************************************************)
(* SpecRequests: requests to the orchestrator's A2A endpoint, handled      *)
(* concurrently by the one OrchestratorExecutor of the process.  A request *)
(* runs until it awaits.                                                   *)
(***************************************************************************)
Requests == 1 .. MaxRequests

RequestsIdle ==
    /\ r_pc = [r \in Requests |-> "new"]
    /\ current_token = 0
    /\ r_token = [r \in Requests |-> 0]
    /\ r_started = [r \in Requests |-> 0]
    /\ r_recorded = [r \in Requests |-> 0]
    /\ r_exchanged = [r \in Requests |-> {}]
    /\ r_cancel = [r \in Requests |-> <<>>]

InitRequestVars ==
    /\ RequestsIdle
    /\ r_bearer \in [Requests -> {0} \cup SourceTokens]

NoRequests == RequestsIdle /\ r_bearer = [r \in Requests |-> 0]

\* __main__.py lines 62-71 and executor.py lines 23-25: the middleware stores
\* the bearer token of the request (None without one) in the executor and
\* awaits the rest of the handling.
Dispatch(r) ==
    /\ r_pc[r] = "new"
    /\ current_token' = r_bearer[r]
    /\ r_pc' = [r_pc EXCEPT ![r] = "dispatched"]
    /\ UNCHANGED <<r_bearer, r_token, r_started, r_recorded, r_exchanged, r_cancel>>

\* __main__.py lines 113-116: a completed login stores its delegated token in
\* the executor.
OauthCallback(token) ==
    /\ current_token' = token
    /\ UNCHANGED <<r_pc, r_bearer, r_token, r_started, r_recorded, r_exchanged, r_cancel>>

\* executor.py line 54 and agent.py lines 761-770: execute reads the token of
\* the executor; without one stream asks for authentication.
ExecuteNoToken(r) ==
    /\ r_pc[r] = "dispatched"
    /\ current_token = 0
    /\ r_pc' = [r_pc EXCEPT ![r] = "no_auth"]
    /\ UNCHANGED <<r_bearer, current_token, r_token, r_started, r_recorded, r_exchanged,
                   r_cancel>>

\* executor.py line 54 and agent.py lines 761-776: the run is started with the
\* token of the executor.
Execute(r) ==
    /\ r_pc[r] = "dispatched"
    /\ current_token # 0
    /\ r_token' = [r_token EXCEPT ![r] = current_token]
    /\ r_pc' = [r_pc EXCEPT ![r] = "running"]
    /\ UNCHANGED <<r_bearer, current_token, r_started, r_recorded, r_exchanged, r_cancel>>

\* graph.py lines 267-283: a step of the run exchanges state["access_token"]
\* and awaits.
StepStart(r) ==
    /\ r_pc[r] = "running"
    /\ r_started[r] < MaxRunSteps
    /\ r_started' = [r_started EXCEPT ![r] = @ + 1]
    /\ r_exchanged' = [r_exchanged EXCEPT ![r] = @ \cup {r_token[r]}]
    /\ r_pc' = [r_pc EXCEPT ![r] = "in_step"]
    /\ UNCHANGED <<r_bearer, current_token, r_token, r_recorded, r_cancel>>

\* graph.py lines 366-374: the result of the step is recorded.
StepFinish(r) ==
    /\ r_pc[r] = "in_step"
    /\ r_recorded' = [r_recorded EXCEPT ![r] = @ + 1]
    /\ r_pc' = [r_pc EXCEPT ![r] = "running"]
    /\ UNCHANGED <<r_bearer, current_token, r_token, r_started, r_exchanged, r_cancel>>

\* executor.py lines 59-66: the run is over, the response is enqueued.
RunDone(r) ==
    /\ r_pc[r] = "running"
    /\ r_started[r] = MaxRunSteps
    /\ r_pc' = [r_pc EXCEPT ![r] = "done"]
    /\ UNCHANGED <<r_bearer, current_token, r_token, r_started, r_recorded, r_exchanged,
                   r_cancel>>

\* executor.py lines 68-70: cancel raises UnsupportedOperationError; the run
\* is not told.
Cancel(r) ==
    /\ r_pc[r] = "in_step"
    /\ r_cancel[r] = <<>>
    /\ r_cancel' = [r_cancel EXCEPT ![r] = <<r_started[r]>>]
    /\ UNCHANGED <<r_pc, r_bearer, current_token, r_token, r_started, r_recorded,
                   r_exchanged>>

----------------------------------------------------------------------------
(***************************************************************************)
(* SpecInvoke: the steps of one run of the graph, from the agent key to    *)
(* the request posted to the agent.  A string made of words is the         *)
(* sequence of its words: an agent name is its words separated by spaces,  *)
(* an agent key its words separated by underscores.                        *)
(***************************************************************************)
AgentNameWords ==
    { <<"HR", "Agent">>, <<"Approval", "Agent">>, <<"Sub", "Agent", "Manager">>, <<"HR">> }

\* name.lower().replace(" ", "_")
agent_key_of(name) == [i \in 1 .. Len(name) |-> Lower(name[i])]

\* agent_key.replace("_agent", ""): every "_agent" of the key is removed.
RECURSIVE replace_agent(_)
replace_agent(agent_key) ==
    IF Len(agent_key) <= 1 THEN agent_key
    ELSE LET front == replace_agent(SubSeq(agent_key, 1, Len(agent_key) - 1))
         IN  IF agent_key[Len(agent_key)] = "agent" THEN front
             ELSE Append(front, agent_key[Len(agent_key)])

\* f"{scope_prefix}:read", f"{scope_prefix}:write"
derived_scopes(scope_prefix) ==
    << [prefix |-> scope_prefix, access |-> "read"],
       [prefix |-> scope_prefix, access |-> "write"] >>

\* The "agents" sections config.yaml can hold: none, one with the scopes of
\* the HR agent, one with an HR agent without scopes.
ScopeConfigs ==
    { <<>>,
      [k \in {<<"hr", "agent">>} |->
          [scopes |-> << [prefix |-> <<"hr">>, access |-> "read"] >>]],
      [k \in {<<"hr", "agent">>} |-> [scopes |-> <<>>]] }

\* graph.py lines 232-245: the key comes from the name of the discovered agent
\* with the url of the task, else from the agent name of the task.
\* discovered is <<>> when no discovered agent has the url.
task_agent_key(discovered, agent_name) ==
    IF discovered # <<>> THEN agent_key_of(discovered) ELSE agent_key_of(agent_name)

\* graph.py lines 253-264: the scopes of the step.
agent_scopes(agents_section, agent_key) ==
    IF agent_key \in DOMAIN agents_section /\ agents_section[agent_key].scopes # <<>>
    THEN agents_section[agent_key].scopes
    ELSE derived_scopes(replace_agent(agent_key))

\* Variant of call_agent: the token of the user is sent to the agent.
call_agent_bearer_delegated(access_token_, pre_exchanged_token) == access_token_

\* agent.py lines 254-259 and 328: the bearer token of the request to the agent.
call_agent_bearer(access_token_, pre_exchanged_token) == pre_exchanged_token

\* The n-th token the identity server returns for an exchange.
ExchangedToken(n) == Max(SourceTokens) + n

NoStepYet ==
    [agent_name |-> <<>>, discovered |-> <<>>, agents_section |-> <<>>,
     agent_key |-> <<>>, target_scopes |-> <<>>, source_token |-> 0]

InvokeIdle ==
    /\ i_step = 0
    /\ i_last = NoStepYet
    /\ i_tokens = <<>>
    /\ i_posts = <<>>

\* graph.py lines 226-283 and agent.py lines 221-340: one step that is not
\* skipped.  The exchange raises or returns a token; call_agent finds the agent
\* or not, and posts the task with the bearer token.  state["access_token"] is
\* the same for every step of the run.
ExecuteTaskInvoke(source_token) ==
    /\ i_step < MaxRunSteps
    /\ i_step > 0 => source_token = i_last.source_token
    /\ \E agent_name \in AgentNameWords, discovered \in {<<>>, <<"HR", "Agent">>},
          agents_section \in ScopeConfigs, exchanged \in BOOLEAN, found \in BOOLEAN :
          LET agent_key == task_agent_key(discovered, agent_name)
              agent_token == IF exchanged THEN ExchangedToken(i_step + 1) ELSE 0
          IN  /\ i_step' = i_step + 1
              /\ i_last' = [agent_name |-> agent_name, discovered |-> discovered,
                            agents_section |-> agents_section, agent_key |-> agent_key,
                            target_scopes |-> agent_scopes(agents_section, agent_key),
                            source_token |-> source_token]
              /\ i_tokens' = Append(i_tokens, agent_token)
              /\ i_posts' = IF exchanged /\ found
                            THEN Append(i_posts,
                                        [step |-> i_step + 1,
                                         bearer |-> call_agent_bearer(source_token,
                                                                      agent_token)])
                            ELSE i_posts

----------------------------------------------------------------------------
(***************************************************************************)
(* SpecAuth: the auth manager of the hotel booking sample, in its two      *)
(* implementations: AutogenAuthManager with the TokenManager of            *)
(* auth/token_manager.py, and AuthManager with the TokenManager of         *)
(* sdk/auth.py.  Calls of get_oauth_token and of process_callback          *)
(* interleave at their awaits.                                             *)
(***************************************************************************)
TokenRequests == 1 .. MaxTokenRequests

CallbackCalls == 1 .. MaxCallbackCalls

\* _create_state / get_authorization_url_with_pkce: one state per OBO request.
AuthStates == 1 .. MaxTokenRequests

\* models.py lines 18-21: the values of OAuthTokenType.
OBO_TOKEN == "authorization_code"

AGENT_TOKEN == "agent_token"

\* models.py lines 24-37: the AuthConfig of a request.  Two of the scope lists
\* hold the same scopes in another order.
ScopeLists ==
    { <<"read_bookings">>,
      <<"read_bookings", "create_bookings">>,
      <<"create_bookings", "read_bookings">> }

ResourceNames == {"booking_api", "staff_api"}

AuthConfigs == [scopes : ScopeLists, token_type : {OBO_TOKEN, AGENT_TOKEN},
                resource : ResourceNames]

NoAuthConfig == [scopes |-> <<>>, token_type |-> "None", resource |-> "None"]

\* Python's frozenset of a list.
frozenset(list) == {list[i] : i \in DOMAIN list}

\* token_manager.py lines 72-81 (sdk/auth.py lines 86 and 90).
create_cache_key(config) == <<frozenset(config.scopes), config.token_type>>

CacheKeys == {create_cache_key(config) : config \in AuthConfigs}

\* sdk/auth.py lines 48-56: an OAuthToken; issued_for is the request it was
\* obtained for.  NoOAuthToken stands for None.
NoOAuthToken == [access_token |-> 0, expires_at |-> 0, issued_for |-> NoAuthConfig]

\* sdk/auth.py lines 58-61.
is_expired(token, time) ==
    IF token.expires_at = 0
    THEN TRUE
    ELSE time >= token.expires_at - ExpiryMargin

\* token_manager.py lines 43-51 (sdk/auth.py lines 85-87).
add_token(store, config, token) == [store EXCEPT ![create_cache_key(config)] = token]

\* token_manager.py lines 53-70.
get_token(store, config, time) ==
    LET key == create_cache_key(config)
        token == store[key]
    IN  IF token # NoOAuthToken /\ is_expired(token, time)
        THEN [outcome |-> "returned", token |-> NoOAuthToken,
              store |-> [store EXCEPT ![key] = NoOAuthToken]]
        ELSE [outcome |-> "returned", token |-> token, store |-> store]

\* sdk/auth.py lines 89-97: for an expired token line 95 pops the config, which
\* is no key of the store, and the pop raises.
sdk_get_token(store, config, time) ==
    LET key == create_cache_key(config)
        token == store[key]
    IN  IF token # NoOAuthToken /\ is_expired(token, time)
        THEN [outcome |-> "raised", token |-> NoOAuthToken, store |-> store]
        ELSE [outcome |-> "returned", token |-> token, store |-> store]

\* What a call returned or raised.
StillRunning == [kind |-> "pending", token |-> NoOAuthToken, error |-> "None"]

Returned(token) ==
    [kind |-> IF token = NoOAuthToken THEN "none" ELSE "token", token |-> token,
     error |-> "None"]

Raised(exception) == [kind |-> "raised", token |-> NoOAuthToken, error |-> exception]

NoLookup == [outcome |-> "None", token |-> NoOAuthToken, expired |-> FALSE]

\* An asyncio.Future: pending, cancelled, or done with a result or exception.
NewFuture == [status |-> "pending", token |-> NoOAuthToken]

future_done(future) == future.status # "pending"

\* dict.pop(state, None).
pop(pending, state) == [s \in DOMAIN pending \ {state} |-> pending[s]]

\* The token the identity server issues next.
NextOAuthToken(config) ==
    [access_token |-> oauth_issued + 1, expires_at |-> clock + TokenLifetime,
     issued_for |-> config]

InitAuthVars ==
    /\ impl \in {"autogen", "sdk"}
    /\ clock = 0
    /\ token_store = [key \in CacheKeys |-> NoOAuthToken]
    /\ pending_auths = [s \in {} |-> NoAuthConfig]
    /\ futures = <<>>
    /\ q_pc = [q \in TokenRequests |-> "idle"]
    /\ q_config = [q \in TokenRequests |-> NoAuthConfig]
    /\ q_state = [q \in TokenRequests |-> 0]
    /\ q_lookup = [q \in TokenRequests |-> NoLookup]
    /\ q_result = [q \in TokenRequests |-> StillRunning]
    /\ k_pc = [k \in CallbackCalls |-> "idle"]
    /\ k_state = [k \in CallbackCalls |-> 0]
    /\ k_config = [k \in CallbackCalls |-> NoAuthConfig]
    /\ k_token = [k \in CallbackCalls |-> NoOAuthToken]
    /\ k_result = [k \in CallbackCalls |-> StillRunning]
    /\ oauth_issued = 0

AuthIdle ==
    /\ impl = "autogen"
    /\ clock = 0
    /\ token_store = [key \in CacheKeys |-> NoOAuthToken]
    /\ pending_auths = [s \in {} |-> NoAuthConfig]
    /\ futures = <<>>
    /\ q_pc = [q \in TokenRequests |-> "idle"]
    /\ q_config = [q \in TokenRequests |-> NoAuthConfig]
    /\ q_state = [q \in TokenRequests |-> 0]
    /\ q_lookup = [q \in TokenRequests |-> NoLookup]
    /\ q_result = [q \in TokenRequests |-> StillRunning]
    /\ k_pc = [k \in CallbackCalls |-> "idle"]
    /\ k_state = [k \in CallbackCalls |-> 0]
    /\ k_config = [k \in CallbackCalls |-> NoAuthConfig]
    /\ k_token = [k \in CallbackCalls |-> NoOAuthToken]
    /\ k_result = [k \in CallbackCalls |-> StillRunning]
    /\ oauth_issued = 0

\* auth_manager.py lines 75-107 and 233-263 (sdk/auth.py lines 301-339 and
\* 242-286): get_oauth_token up to its first await.  A live cached token is
\* returned.  Otherwise an OBO request registers its state with a new future,
\* notifies the client and waits; an agent token request goes to the server.
\* The message handler is registered (AuthSchema refuses an OBO config without
\* one); when it raises, AutogenAuthManager returns None (line 274) and
\* AuthManager lets the exception through, the entry staying in both.  The
\* refresh of sdk/auth.py lines 316-320 needs an expired token from get_token,
\* which line 95 never returns.
GetOAuthToken(q, config, handler_ok) ==
    /\ q_pc[q] = "idle"
    /\ LET lookup == IF impl = "autogen"
                     THEN get_token(token_store, config, clock)
                     ELSE sdk_get_token(token_store, config, clock)
           cached == token_store[create_cache_key(config)]
           state == Len(futures) + 1
           obo == /\ lookup.outcome = "returned"
                  /\ lookup.token = NoOAuthToken
                  /\ config.token_type = OBO_TOKEN
       IN  /\ token_store' = lookup.store
           /\ q_config' = [q_config EXCEPT ![q] = config]
           /\ q_lookup' = [q_lookup EXCEPT ![q] =
                  [outcome |-> lookup.outcome, token |-> lookup.token,
                   expired |-> cached # NoOAuthToken /\ is_expired(cached, clock)]]
           /\ pending_auths' =
                  IF obo
                  THEN [s \in DOMAIN pending_auths \cup {state} |->
                           IF s = state
                           THEN [scopes |-> config.scopes, resource |-> config.resource]
                           ELSE pending_auths[s]]
                  ELSE pending_auths
           /\ futures' = IF obo THEN Append(futures, NewFuture) ELSE futures
           /\ q_state' = [q_state EXCEPT ![q] = IF obo THEN state ELSE 0]
           /\ q_pc' = [q_pc EXCEPT ![q] =
                  IF lookup.outcome = "raised" \/ lookup.token # NoOAuthToken THEN "returned"
                  ELSE IF ~obo THEN "fetching"
                  ELSE IF handler_ok THEN "waiting"
                  ELSE "returned"]
           /\ q_result' = [q_result EXCEPT ![q] =
                  IF lookup.outcome = "raised" THEN Raised("KeyError")
                  ELSE IF lookup.token # NoOAuthToken THEN Returned(lookup.token)
                  ELSE IF ~obo \/ handler_ok THEN StillRunning
                  ELSE IF impl = "autogen" THEN Returned(NoOAuthToken)
                  ELSE Raised("handler")]
    /\ UNCHANGED <<impl, clock, k_pc, k_state, k_config, k_token, k_result, oauth_issued>>

\* auth_manager.py lines 98-107 and 184-194 (sdk/auth.py lines 329-339): the
\* agent token arrives and is cached, or the request to the server raises.
FetchAgentToken(q, ok) ==
    /\ q_pc[q] = "fetching"
    /\ LET token == NextOAuthToken(q_config[q])
       IN  /\ oauth_issued' = IF ok THEN oauth_issued + 1 ELSE oauth_issued
           /\ token_store' = IF ok THEN add_token(token_store, q_config[q], token)
                             ELSE token_store
           /\ q_result' = [q_result EXCEPT ![q] =
                  IF ok THEN Returned(token) ELSE Raised("fetch")]
    /\ q_pc' = [q_pc EXCEPT ![q] = "returned"]
    /\ UNCHANGED <<impl, clock, pending_auths, futures, q_config, q_state, q_lookup,
                   k_pc, k_state, k_config, k_token, k_result>>

\* auth_manager.py line 267 (sdk/auth.py line 290): authorization_timeout
\* passes while the future is pending.  wait_for cancels the future; the
\* waiting call runs again when the event loop next schedules it.
AuthorizationTimeout(q) ==
    /\ q_pc[q] = "waiting"
    /\ ~future_done(futures[q_state[q]])
    /\ futures' = [futures EXCEPT ![q_state[q]].status = "cancelled"]
    /\ q_pc' = [q_pc EXCEPT ![q] = "timed_out"]
    /\ UNCHANGED <<impl, clock, token_store, pending_auths, q_config, q_state, q_lookup,
                   q_result, k_pc, k_state, k_config, k_token, k_result, oauth_issued>>

\* auth_manager.py lines 278-287.
cleanup_pending_auth(pending, state) ==
    IF state \in DOMAIN pending THEN pop(pending, state) ELSE pending

\* auth_manager.py lines 269-272 and 103-107: the waiting call handles the
\* TimeoutError.  sdk/auth.py lines 292-299: line 296 pops the tuple of the
\* entry and line 297 asks it for done(), which raises AttributeError.
WaiterTimedOut(q) ==
    /\ q_pc[q] = "timed_out"
    /\ pending_auths' = cleanup_pending_auth(pending_auths, q_state[q])
    /\ q_result' = [q_result EXCEPT ![q] =
           IF impl = "sdk" /\ q_state[q] \in DOMAIN pending_auths
           THEN Raised("AttributeError")
           ELSE Returned(NoOAuthToken)]
    /\ q_pc' = [q_pc EXCEPT ![q] = "returned"]
    /\ UNCHANGED <<impl, clock, token_store, futures, q_config, q_state, q_lookup,
                   k_pc, k_state, k_config, k_token, k_result, oauth_issued>>

\* auth_manager.py lines 267-268, 274-276 and 103-107 (sdk/auth.py lines
\* 290-291 and 336-339): the future is done.  Its token is returned and cached;
\* its exception ends the call with None in AutogenAuthManager and is raised
\* by AuthManager.
WaiterResumed(q) ==
    /\ q_pc[q] = "waiting"
    /\ futures[q_state[q]].status \in {"result", "exception"}
    /\ LET future == futures[q_state[q]]
       IN  /\ token_store' = IF future.status = "result"
                             THEN add_token(token_store, q_config[q], future.token)
                             ELSE token_store
           /\ q_result' = [q_result EXCEPT ![q] =
                  IF future.status = "result" THEN Returned(future.token)
                  ELSE IF impl = "autogen" THEN Returned(NoOAuthToken)
                  ELSE Raised("fetch")]
    /\ q_pc' = [q_pc EXCEPT ![q] = "returned"]
    /\ UNCHANGED <<impl, clock, pending_auths, futures, q_config, q_state, q_lookup,
                   k_pc, k_state, k_config, k_token, k_result, oauth_issued>>

\* auth_manager.py lines 122-131: what process_callback does with the state
\* before it fetches.
callback_entry(pending, is_done, state) ==
    IF state \notin DOMAIN pending THEN "ValueError"
    ELSE IF is_done THEN "ValueError"
    ELSE "fetch"

\* sdk/auth.py lines 343-347: unpacking the None of a state without an entry
\* raises TypeError; the test of line 345 is false for every future.
sdk_callback_entry(pending, is_done, state) ==
    IF state \notin DOMAIN pending THEN "TypeError" ELSE "fetch"

\* auth_manager.py lines 109-135 (sdk/auth.py lines 341-352): process_callback
\* up to its await of _fetch_oauth_token.
ProcessCallback(k, state) ==
    /\ k_pc[k] = "idle"
    /\ LET is_done == IF state \in DOMAIN futures THEN future_done(futures[state]) ELSE FALSE
           entry == IF impl = "autogen"
                    THEN callback_entry(pending_auths, is_done, state)
                    ELSE sdk_callback_entry(pending_auths, is_done, state)
       IN  /\ k_state' = [k_state EXCEPT ![k] = state]
           /\ k_config' = [k_config EXCEPT ![k] =
                  IF state \in DOMAIN pending_auths
                  THEN [scopes |-> pending_auths[state].scopes, token_type |-> OBO_TOKEN,
                        resource |-> pending_auths[state].resource]
                  ELSE NoAuthConfig]
           /\ pending_auths' = pop(pending_auths, state)
           /\ k_pc' = [k_pc EXCEPT ![k] = IF entry = "fetch" THEN "fetching" ELSE "done"]
           /\ k_result' = [k_result EXCEPT ![k] =
                  IF entry = "fetch" THEN StillRunning ELSE Raised(entry)]
    /\ UNCHANGED <<impl, clock, token_store, futures, q_pc, q_config, q_state, q_lookup,
                   q_result, k_token, oauth_issued>>

\* auth_manager.py lines 133-142 (sdk/auth.py lines 349-359): the fetch is
\* over.  set_result and set_exception raise InvalidStateError for a future
\* that is done, and the handler of line 139 then raises it from line 140.
CallbackFetched(k, ok) ==
    /\ k_pc[k] = "fetching"
    /\ LET token == NextOAuthToken(k_config[k])
           future == futures[k_state[k]]
       IN  /\ oauth_issued' = IF ok THEN oauth_issued + 1 ELSE oauth_issued
           /\ k_token' = [k_token EXCEPT ![k] = IF ok THEN token ELSE NoOAuthToken]
           /\ futures' =
                  IF future_done(future) THEN futures
                  ELSE IF ok
                  THEN [futures EXCEPT ![k_state[k]] = [status |-> "result", token |-> token]]
                  ELSE [futures EXCEPT ![k_state[k]].status = "exception"]
           /\ k_result' = [k_result EXCEPT ![k] =
                  IF future_done(future) THEN Raised("InvalidStateError")
                  ELSE IF ok THEN Returned(token)
                  ELSE Raised("fetch")]
    /\ k_pc' = [k_pc EXCEPT ![k] = "done"]
    /\ UNCHANGED <<impl, clock, token_store, pending_auths, q_pc, q_config, q_state,
                   q_lookup, q_result, k_state, k_config>>

\* Time passes.
TimePasses ==
    /\ clock < MaxClock
    /\ clock' = clock + 1
    /\ UNCHANGED <<impl, token_store, pending_auths, futures, q_pc, q_config, q_state,
                   q_lookup, q_result, k_pc, k_state, k_config, k_token, k_result,
                   oauth_issued>>

----------------------------------------------------------------------------
(***************************************************************************)
(* The specifications.                                                     *)
(***************************************************************************)
InitGraph == InitGraphVars /\ InitWorkflowVars /\ InitActorVars /\ BrokerIdle
    /\ NoRequests /\ InvokeIdle /\ AuthIdle

NextGraph ==
    \/ NotAuthenticated /\ UNCHANGED <<wvars, avars, bvars, rvars, ivars, mvars>>
    \/ StartWorkflow /\ UNCHANGED <<wvars, avars, bvars, rvars, ivars, mvars>>
    \/ DiscoverAgents /\ UNCHANGED <<wvars, avars, bvars, rvars, ivars, mvars>>
    \/ PlanTasks /\ UNCHANGED <<wvars, avars, bvars, rvars, ivars, mvars>>
    \/ PlanTasksNotJson /\ UNCHANGED <<wvars, avars, bvars, rvars, ivars, mvars>>
    \/ PlanTasksRaises /\ UNCHANGED <<wvars, avars, bvars, rvars, ivars, mvars>>
    \/ ExecuteTaskPastEnd /\ UNCHANGED <<wvars, avars, bvars, rvars, ivars, mvars>>
    \/ ExecuteTaskSkipped /\ UNCHANGED <<wvars, avars, bvars, rvars, ivars, mvars>>
    \/ ExecuteTaskRun /\ UNCHANGED <<wvars, avars, bvars, rvars, ivars, mvars>>
    \/ Aggregate /\ UNCHANGED <<wvars, avars, bvars, rvars, ivars, mvars>>
    \/ ReturnResult /\ UNCHANGED <<wvars, avars, bvars, rvars, ivars, mvars>>

SpecGraph == InitGraph /\ [][NextGraph]_vars

\* graph.py line 521 and agent.py lines 823-827: the run is awaited, so a node
\* that can run does run (every node changes pc or the index).
SpecGraphFair == SpecGraph /\ WF_<<pc, current_task_index>>(NextGraph)

InitWorkflow == GraphIdle /\ InitWorkflowVars /\ InitActorVars /\ BrokerIdle
    /\ NoRequests /\ InvokeIdle /\ AuthIdle

NextWorkflow ==
    \/ DecomposeToTasks /\ UNCHANGED <<gvars, avars, bvars, rvars, ivars, mvars>>
    \/ DecomposeNoAgents /\ UNCHANGED <<gvars, avars, bvars, rvars, ivars, mvars>>
    \/ WorkflowStep /\ UNCHANGED <<gvars, avars, bvars, rvars, ivars, mvars>>
    \/ WorkflowReturn /\ UNCHANGED <<gvars, avars, bvars, rvars, ivars, mvars>>

SpecWorkflow == InitWorkflow /\ [][NextWorkflow]_vars

InitActor == GraphIdle /\ InitWorkflowVars /\ InitActorVars /\ BrokerIdle
    /\ NoRequests /\ InvokeIdle /\ AuthIdle

NextActor ==
    \/ \E p \in Callers : GetActorTokenCached(p) /\ UNCHANGED <<gvars, wvars, bvars, rvars, ivars, mvars>>
    \/ \E p \in Callers : GetActorTokenFetch(p) /\ UNCHANGED <<gvars, wvars, bvars, rvars, ivars, mvars>>
    \/ \E p \in Callers : Step1Reply(p) /\ UNCHANGED <<gvars, wvars, bvars, rvars, ivars, mvars>>
    \/ \E p \in Callers : Step2Reply(p) /\ UNCHANGED <<gvars, wvars, bvars, rvars, ivars, mvars>>
    \/ \E p \in Callers : Step3Token(p) /\ UNCHANGED <<gvars, wvars, bvars, rvars, ivars, mvars>>
    \/ \E p \in Callers : Step3Failure(p) /\ UNCHANGED <<gvars, wvars, bvars, rvars, ivars, mvars>>
    \/ Tick /\ UNCHANGED <<gvars, wvars, bvars, rvars, ivars, mvars>>

SpecActor == InitActor /\ [][NextActor]_vars

InitBroker == GraphIdle /\ InitWorkflowVars /\ InitActorVars /\ InitBrokerVars
    /\ NoRequests /\ InvokeIdle /\ AuthIdle

NextBroker ==
    \/ CreateSession /\ UNCHANGED <<gvars, wvars, rvars, ivars, mvars>>
    \/ \E code \in Codes, state \in SessionIds :
          HandleCallbackUnknownState(code, state) /\ UNCHANGED <<gvars, wvars, rvars, ivars, mvars>>
    \/ \E code \in Codes, state \in SessionIds :
          HandleCallback(code, state) /\ UNCHANGED <<gvars, wvars, rvars, ivars, mvars>>
    \/ Tick /\ UNCHANGED <<gvars, wvars, bvars, rvars, ivars, mvars>>

SpecBroker == InitBroker /\ [][NextBroker]_vars

InitExchange == GraphIdle /\ InitWorkflowVars /\ InitActorVars /\ InitBrokerVars
    /\ NoRequests /\ InvokeIdle /\ AuthIdle

NextExchange ==
    \/ \E source_token \in SourceTokens, agent_key \in AgentKeys,
          target_scopes \in TargetScopeInputs :
            ExchangeTokenForAgentRefused(source_token, agent_key, target_scopes)
                /\ UNCHANGED <<gvars, wvars, rvars, ivars, mvars>>
    \/ \E source_token \in SourceTokens, agent_key \in AgentKeys,
          target_scopes \in TargetScopeInputs :
            ExchangeTokenForAgent(source_token, agent_key, target_scopes)
                /\ UNCHANGED <<gvars, wvars, rvars, ivars, mvars>>

SpecExchange == InitExchange /\ [][NextExchange]_vars

InitRun ==
    /\ InitRunVars
    /\ InitWorkflowVars
    /\ \/ BrokerLoggedIn /\ ClientLoggedIn
       \/ BrokerLoginStarted /\ InitActorVars
    /\ NoRequests /\ InvokeIdle /\ AuthIdle

NextRun ==
    \/ ApiChatNoSession /\ UNCHANGED <<wvars, avars, bvars, rvars, ivars, mvars>>
    \/ ApiChat /\ UNCHANGED <<wvars, avars, bvars, rvars, ivars, mvars>>
    \/ StartWorkflow /\ UNCHANGED <<wvars, avars, bvars, rvars, ivars, mvars>>
    \/ DiscoverAgents /\ UNCHANGED <<wvars, avars, bvars, rvars, ivars, mvars>>
    \/ PlanTasks /\ UNCHANGED <<wvars, avars, bvars, rvars, ivars, mvars>>
    \/ PlanTasksNotJson /\ UNCHANGED <<wvars, avars, bvars, rvars, ivars, mvars>>
    \/ PlanTasksRaises /\ UNCHANGED <<wvars, avars, bvars, rvars, ivars, mvars>>
    \/ ExecuteTaskPastEnd /\ UNCHANGED <<wvars, avars, bvars, rvars, ivars, mvars>>
    \/ ExecuteTaskSkipped /\ UNCHANGED <<wvars, avars, bvars, rvars, ivars, mvars>>
    \/ ExecuteTaskRun /\ UNCHANGED <<wvars, avars, bvars, rvars, ivars, mvars>>
    \/ Aggregate /\ UNCHANGED <<wvars, avars, bvars, rvars, ivars, mvars>>
    \/ ReturnResult /\ UNCHANGED <<wvars, avars, bvars, rvars, ivars, mvars>>
    \/ Tick /\ UNCHANGED <<gvars, wvars, bvars, rvars, ivars, mvars>>

SpecRun == InitRun /\ [][NextRun]_vars

InitRequests ==
    /\ GraphIdle /\ InitWorkflowVars /\ InitActorVars /\ BrokerIdle
    /\ InitRequestVars /\ InvokeIdle /\ AuthIdle

NextRequests ==
    \/ \E r \in Requests : Dispatch(r) /\ UNCHANGED <<gvars, wvars, avars, bvars, ivars, mvars>>
    \/ \E token \in SourceTokens :
          OauthCallback(token) /\ UNCHANGED <<gvars, wvars, avars, bvars, ivars, mvars>>
    \/ \E r \in Requests : ExecuteNoToken(r) /\ UNCHANGED <<gvars, wvars, avars, bvars, ivars, mvars>>
    \/ \E r \in Requests : Execute(r) /\ UNCHANGED <<gvars, wvars, avars, bvars, ivars, mvars>>
    \/ \E r \in Requests : StepStart(r) /\ UNCHANGED <<gvars, wvars, avars, bvars, ivars, mvars>>
    \/ \E r \in Requests : StepFinish(r) /\ UNCHANGED <<gvars, wvars, avars, bvars, ivars, mvars>>
    \/ \E r \in Requests : RunDone(r) /\ UNCHANGED <<gvars, wvars, avars, bvars, ivars, mvars>>
    \/ \E r \in Requests : Cancel(r) /\ UNCHANGED <<gvars, wvars, avars, bvars, ivars, mvars>>

SpecRequests == InitRequests /\ [][NextRequests]_vars

InitInvoke ==
    /\ GraphIdle /\ InitWorkflowVars /\ InitActorVars /\ BrokerIdle
    /\ NoRequests /\ InvokeIdle /\ AuthIdle

NextInvoke ==
    \E source_token \in SourceTokens :
        ExecuteTaskInvoke(source_token) /\ UNCHANGED <<gvars, wvars, avars, bvars, rvars, mvars>>

SpecInvoke == InitInvoke /\ [][NextInvoke]_vars

InitAuth ==
    /\ GraphIdle /\ InitWorkflowVars /\ InitActorVars /\ BrokerIdle
    /\ NoRequests /\ InvokeIdle /\ InitAuthVars

NextAuth ==
    \/ \E q \in TokenRequests, config \in AuthConfigs, handler_ok \in BOOLEAN :
          GetOAuthToken(q, config, handler_ok)
              /\ UNCHANGED <<gvars, wvars, avars, bvars, rvars, ivars>>
    \/ \E q \in TokenRequests, ok \in BOOLEAN :
          FetchAgentToken(q, ok) /\ UNCHANGED <<gvars, wvars, avars, bvars, rvars, ivars>>
    \/ \E q \in TokenRequests :
          AuthorizationTimeout(q) /\ UNCHANGED <<gvars, wvars, avars, bvars, rvars, ivars>>
    \/ \E q \in TokenRequests :
          WaiterTimedOut(q) /\ UNCHANGED <<gvars, wvars, avars, bvars, rvars, ivars>>
    \/ \E q \in TokenRequests :
          WaiterResumed(q) /\ UNCHANGED <<gvars, wvars, avars, bvars, rvars, ivars>>
    \/ \E k \in CallbackCalls, state \in AuthStates :
          ProcessCallback(k, state) /\ UNCHANGED <<gvars, wvars, avars, bvars, rvars, ivars>>
    \/ \E k \in CallbackCalls, ok \in BOOLEAN :
          CallbackFetched(k, ok) /\ UNCHANGED <<gvars, wvars, avars, bvars, rvars, ivars>>
    \/ TimePasses /\ UNCHANGED <<gvars, wvars, avars, bvars, rvars, ivars>>

SpecAuth == InitAuth /\ [][NextAuth]_vars

----------------------------------------------------------------------------
(***************************************************************************)
(* Properties of SpecGraph.                                                *)
(***************************************************************************)
Positions == 1 .. Len(task_results)

DeniedLinkedTo(decisions, step) ==
    \E k \in 1 .. Len(decisions) :
        decisions[k].status = "denied" /\ decisions[k].linked_task_step = step

\* The statuses of the decisions recorded by the step at position i (1-based).
StatusesOf(i) ==
    { approval_decisions[k].status :
        k \in { n \in 1 .. Len(approval_decisions) : approval_decisions[n].task = i - 1 } }

DecisionCountOf(i) ==
    Cardinality({ n \in 1 .. Len(approval_decisions) : approval_decisions[n].task = i - 1 })

HasApprovalKeyword(text) == LowerText(text) \cap {"approved", "approval granted"} # {}

HasDenialKeyword(text) == LowerText(text) \cap {"denied", "rejected", "failed", "error"} # {}

ReturnedText(o) == o.kind \in {"agent_result", "agent_error"} /\ o.isStr

DistinctSteps(plan) ==
    \A i, j \in 1 .. Len(plan) : i # j => plan[i].step # plan[j].step

\* C1: once a run has reached its end (the aggregate node and after), task_results
\* holds one result per task of the plan, in the order of the plan, and nothing
\* else; run_with_langgraph returns that plan and those results.
C1_ResultsMatchPlan ==
    pc \in {"aggregate", "END", "returned"} =>
        /\ Len(task_results) = Len(task_plan)
        /\ \A i \in 1 .. Len(task_plan) :
              /\ task_results[i].step = task_plan[i].step
              /\ task_results[i].agent = task_plan[i].agent_name
        /\ (pc = "returned" /\ planned # "no") =>
              /\ run_result.task_results = task_results
              /\ run_result.task_plan = task_plan

C1_Witness ==
    /\ pc = "returned"
    /\ Len(run_result.task_plan) >= 3
    /\ \E i \in Positions : task_results[i].skipped
    /\ \E i \in Positions : ~task_results[i].skipped /\ ~task_results[i].success
    /\ \E i \in Positions : task_results[i].success

\* C2: when execute_task_node reaches a task for which a denied decision linked to
\* the task's step is recorded, it appends a skipped result for that task and
\* advances the index, and neither exchanges a token nor calls the agent.
C2_DeniedStepIsSkipped ==
    [][ ( /\ pc = "execute_task"
          /\ current_task_index < Len(task_plan)
          /\ DeniedLinkedTo(approval_decisions, task_plan[current_task_index + 1].step) )
        => ( /\ current_task_index' = current_task_index + 1
             /\ Len(task_results') = Len(task_results) + 1
             /\ task_results'[Len(task_results')].skipped
             /\ task_results'[Len(task_results')].step = task_plan[current_task_index + 1].step
             /\ exchange_calls' = exchange_calls
             /\ agent_calls' = agent_calls ) ]_vars

C2_Witness ==
    \E i \in Positions :
        /\ task_results[i].skipped
        /\ (i - 1) \notin (exchange_calls \cup agent_calls)
        /\ current_task_index = i
        /\ Len(approval_decisions) >= 2

\* C3: a result is a skipped one only if an earlier step of the run recorded a
\* denied decision linked to that step; a step with no such decision is executed
\* (its token exchange is attempted) and its status is the one of its own call.
C3_SkippedOnlyIfDenied ==
    \A i \in Positions :
        LET gate == { k \in 1 .. Len(approval_decisions) :
                        /\ approval_decisions[k].status = "denied"
                        /\ approval_decisions[k].linked_task_step = task_plan[i].step
                        /\ approval_decisions[k].task < i - 1 }
        IN  /\ task_results[i].skipped => gate # {}
            /\ gate = {} =>
                  /\ ~task_results[i].skipped
                  /\ (i - 1) \in exchange_calls
                  /\ outcomes[i].kind # "exchange_error" => (i - 1) \in agent_calls
                  /\ task_results[i].success = (outcomes[i].kind = "agent_result")

C3_Witness ==
    /\ Len(task_results) = 3
    /\ Len(approval_decisions) = 1
    /\ approval_decisions[1].status = "denied"
    /\ approval_decisions[1].task = 0
    /\ task_results[1].success
    /\ task_results[2].skipped
    /\ ~task_results[3].skipped
    /\ task_results[3].success

\* C5 (as claimed): a run whose planning yields the empty plan returns a failed
\* result with the error "no tasks determined", and exchanges no token and calls
\* no agent.
C5_EmptyPlanEndsFailed ==
    (pc = "returned" /\ planned \in {"plan", "not_json"} /\ task_plan = <<>>) =>
        /\ ~run_result.success
        /\ run_result.error = "no tasks determined"
        /\ exchange_calls = {}
        /\ agent_calls = {}

NextStepValue(i) ==
    IF i + 1 < Len(task_plan) THEN task_plan[i + 2].step ELSE NoStep

\* C10 (as claimed): for every plan, a step is skipped exactly when the step right
\* before it recorded a denied decision.
C10_GatesNextPositionOnly ==
    \A j \in Positions :
        task_results[j].skipped <=>
            \E k \in 1 .. Len(approval_decisions) :
                /\ approval_decisions[k].status = "denied"
                /\ approval_decisions[k].task = j - 2

\* C10 (amended): every decision recorded by the step at position i is linked to
\* the step value of the entry at position i+1 (to none when i is the last), and a
\* step is skipped exactly when an earlier step recorded a denied decision whose
\* linked value equals the step value of that step; in a plan whose step values
\* are pairwise distinct this is the entry at position i+1 and no other.
C10_GatesByStepValue ==
    /\ \A k \in 1 .. Len(approval_decisions) :
          approval_decisions[k].linked_task_step = NextStepValue(approval_decisions[k].task)
    /\ \A j \in Positions :
          task_results[j].skipped <=>
              \E k \in 1 .. Len(approval_decisions) :
                  /\ approval_decisions[k].status = "denied"
                  /\ approval_decisions[k].task < j - 1
                  /\ NextStepValue(approval_decisions[k].task) = task_plan[j].step
    /\ DistinctSteps(task_plan) =>
          \A j \in Positions :
              task_results[j].skipped <=>
                  \E k \in 1 .. Len(approval_decisions) :
                      /\ approval_decisions[k].status = "denied"
                      /\ approval_decisions[k].task = j - 2

C10_Witness ==
    /\ Len(task_results) = 3
    /\ Len(approval_decisions) = 1
    /\ approval_decisions[1].status = "denied"
    /\ task_plan[2].step = task_plan[3].step
    /\ task_results[2].skipped
    /\ task_results[3].skipped

\* C21 (as claimed): a run whose planner call raised does not end as failed.
C21_PlannerErrorFallsBack ==
    (pc = "returned" /\ planned = "raised") => run_result.success

\* C22: a step's token exchange and agent call start only when the results of
\* all earlier positions are recorded, in the order of the plan; one step at
\* most starts at a time, and when the node returns the result of every step
\* started is recorded.
C22_StepsOneAtATime ==
    [][ LET started == (exchange_calls' \ exchange_calls) \cup (agent_calls' \ agent_calls)
        IN  /\ Cardinality(started) <= 1
            /\ \A k \in started :
                  /\ k = current_task_index
                  /\ k = Len(task_results)
                  /\ \A i \in 1 .. k : task_results[i].step = task_plan[i].step
                  /\ Len(task_results') = k + 1
            /\ \A k \in exchange_calls' \cup agent_calls' : k < Len(task_results') ]_vars

C22_Witness ==
    /\ pc = "aggregate"
    /\ exchange_calls = {0, 1, 2}
    /\ agent_calls = {0, 2}

\* C23: every step leaves the approval decisions recorded before it in place and
\* unmodified, whichever branch it takes; it can only append to them.
C23_DecisionsOnlyGrow ==
    [][ /\ Len(approval_decisions') >= Len(approval_decisions)
        /\ \A k \in 1 .. Len(approval_decisions) :
              approval_decisions'[k] = approval_decisions[k] ]_vars

\* The decision of position 0 is in place after a skipped step and a step whose
\* token exchange raised.
C23_Witness ==
    /\ Len(task_results) = 3
    /\ Len(approval_decisions) >= 1
    /\ approval_decisions[1].task = 0
    /\ task_results[2].skipped
    /\ outcomes[3].kind = "exchange_error"

\* C24: run_with_langgraph reports success exactly for the runs in which
\* aggregate_results_node ran, whatever the results of the steps; such a run
\* has no error and returns the per-step results.
C24_SuccessIffAggregated ==
    pc = "returned" =>
        /\ run_result.success <=> aggregated
        /\ aggregated => /\ run_result.error = None
                         /\ run_result.task_results = task_results

C24_Witness ==
    /\ pc = "returned"
    /\ run_result.success
    /\ Len(task_results) >= 2
    /\ \A i \in Positions : ~task_results[i].success
    /\ \E i \in Positions : task_results[i].skipped
    /\ \E i \in Positions : ~task_results[i].skipped

\* C25: aggregate_results_node writes a final_response that is determined by
\* task_results alone (one entry per result, in order, with its mark, step,
\* agent and result), the same when computed again from the results it leaves,
\* and changes neither the plan, the results, the decisions nor the index.
C25_AggregateIsPure ==
    [][ pc = "aggregate" =>
          /\ Len(final_response') = Len(task_results)
          /\ \A i \in 1 .. Len(task_results) :
                final_response'[i] =
                    [status |-> IF task_results[i].success THEN "ok" ELSE "fail",
                     step |-> task_results[i].step,
                     agent |-> task_results[i].agent,
                     result |-> task_results[i].result]
          /\ aggregate_results(task_results') = final_response'
          /\ task_plan' = task_plan
          /\ task_results' = task_results
          /\ approval_decisions' = approval_decisions
          /\ current_task_index' = current_task_index ]_vars

C25_Witness ==
    /\ aggregated
    /\ Len(final_response) = 3
    /\ final_response[1].status = "ok"
    /\ final_response[2].status = "fail"
    /\ task_results[2].skipped

C33_ApprovalFailureDenies ==
    \A i \in 1 .. Len(outcomes) :
        ( /\ "approval" \in LowerText(task_plan[i].agent_name)
          /\ outcomes[i].kind \in {"exchange_error", "agent_error"} )
            => /\ "denied" \in StatusesOf(i)
               /\ i < Len(task_results) => task_results[i + 1].skipped

----------------------------------------------------------------------------
(***************************************************************************)
(* Properties of SpecWorkflow.                                             *)
(***************************************************************************)

\* C4 (as claimed): a step whose token exchange is rejected or whose agent call
\* fails is recorded with an error result, the loop goes on, and once the run has
\* returned every task of the plan has its result.
C4_StepFailureIsErrorResult ==
    /\ \A i \in 1 .. Len(wf_outcomes) :
          wf_outcomes[i] \in {"exchange_error", "agent_failed"} => results[i].status = "error"
    /\ (wf_pc = "returned" /\ wf_result.status = "success") =>
          /\ Len(results) = Len(tasks)
          /\ \A i \in 1 .. Len(tasks) : results[i].step = tasks[i].step

\* C26 (as claimed): in process_workflow a step whose transport outcome is a
\* failure (agent not discovered, token exchange failed, non-200 reply,
\* connection error or timeout) is not recorded with status success.
C26_StatusFollowsTransport ==
    \A i \in 1 .. Len(wf_outcomes) :
        wf_outcomes[i] \in {"not_discovered", "exchange_error", "agent_failed"}
            => results[i].status # "success"

----------------------------------------------------------------------------
(***************************************************************************)
(* Properties of SpecActor.                                                *)
(***************************************************************************)

\* C6 (as claimed): calls of get_actor_token that run at the same time with no
\* live token cached cause one acquisition only (never two handshakes in flight),
\* and calls that overlapped return the same token value.
C6_SingleFlight ==
    /\ Cardinality(InFlight) <= 1
    /\ \A p, q \in Callers :
          ({p, q} \in overlapped /\ p # q /\ a_pc[p] = "done" /\ a_pc[q] = "done")
              => a_ret[p].token = a_ret[q].token

\* C15: the requests of an acquisition are in order: step 1 is the first request
\* and only the first; step 2 directly follows a step 1 that returned a flow id
\* (so it is not sent when step 1 returned a code); step 3 directly follows the
\* request that returned the authorization code, step 1 or step 2; every
\* request uses the PKCE pair of step 1.
C15_HandshakeOrder ==
    \A p \in Callers :
        LET t == a_trace[p]
        IN  \A i \in 1 .. Len(t) :
                /\ (i = 1) <=> (t[i].step = 1)
                /\ t[i].step = 2 =>
                      /\ i > 1
                      /\ t[i - 1].step = 1
                      /\ t[i - 1].reply = "flow_id"
                /\ t[i].step = 3 =>
                      /\ i > 1
                      /\ t[i - 1].step \in {1, 2}
                      /\ t[i - 1].reply = "code"
                /\ t[i].pkce = t[1].pkce

\* One caller got its token in three steps, the other one in two.
C15_Witness ==
    \E p, q \in Callers :
        /\ a_pc[p] = "done"
        /\ Len(a_trace[p]) = 3
        /\ a_pc[q] = "done"
        /\ Len(a_trace[q]) = 2
        /\ a_trace[q][2].step = 3

\* C16: when a request of an acquisition fails, the acquisition fails: with that
\* reply no further request is sent, no step is sent twice, no token is issued
\* to the caller, and the cached token stays as it was.
C16_FailureAborts ==
    [][ \A p \in Callers :
          ( /\ a_trace'[p] # a_trace[p]
            /\ \E i \in 1 .. Len(a_trace'[p]) : a_trace'[p][i].reply = "failure" )
          => /\ a_trace'[p][Len(a_trace'[p])].reply = "failure"
             /\ \A i, j \in 1 .. Len(a_trace'[p]) :
                   i # j => a_trace'[p][i].step # a_trace'[p][j].step
             /\ a_pc'[p] = "failed"
             /\ a_ret'[p] = NoToken
             /\ client_actor_token' = client_actor_token
             /\ backend_calls' = backend_calls
             /\ issued' = issued ]_vars

\* Step 2 of an acquisition failed and nothing is cached.
C16_Witness ==
    \E p \in Callers :
        /\ a_pc[p] = "failed"
        /\ Len(a_trace[p]) = 2
        /\ a_trace[p][2].step = 2
        /\ a_trace[p][2].reply = "failure"
        /\ client_actor_token = NoToken
        /\ a_ret[p] = NoToken

----------------------------------------------------------------------------
(***************************************************************************)
(* Properties of SpecBroker.                                               *)
(***************************************************************************)

\* C7: for every session id, get_delegated_token returns nothing as long as no
\* handle_callback for that session has returned, and returns a non-empty token
\* in every state after one has returned.
C7_TokenIffCallbackSucceeded ==
    \A session_id \in SessionIds :
        (get_delegated_token(session_id) = NoDelegatedToken) <=> (session_id \notin callback_ok)

\* A session whose callback has returned has a token while another session, whose
\* callback raised last, has none.
C7_Witness ==
    \E done, failed \in DOMAIN sessions :
        /\ done \in callback_ok
        /\ get_delegated_token(done) # NoDelegatedToken
        /\ failed \notin callback_ok
        /\ cb_result.state = failed
        /\ cb_result.status = "raised"
        /\ get_delegated_token(failed) = NoDelegatedToken

\* C8 (as claimed): every token-exchange request sent by exchange_token_for_agent
\* carries a scope parameter whose value is the call's target_scopes, the empty
\* list included.
C8_ScopesSentVerbatim ==
    \A i \in 1 .. Len(sent) :
        /\ sent[i].data.scope # {}
        /\ \A scope \in sent[i].data.scope : Split(scope) = sent[i].target_scopes

\* C12 (as claimed): once a session holds a delegated token, no operation
\* changes that session's delegated_token, a further handle_callback with the
\* same state included.
C12_TokenAssignedOnce ==
    [][ \A session_id \in DOMAIN sessions :
            sessions[session_id].delegated_token # NoDelegatedToken
                => sessions'[session_id].delegated_token
                      = sessions[session_id].delegated_token ]_vars

\* C13: a handle_callback whose state names no session ends with an error and
\* makes no call to the identity server; one whose actor-token acquisition or
\* code exchange fails ends with an error; a handle_callback that ends with an
\* error leaves the delegated_token and token_expires_at of every session as
\* they were.
C13_FailedCallbackChangesNothing ==
    [][ callbacks' = callbacks + 1 =>
          LET r == cb_result'
          IN  /\ r.state \notin DOMAIN sessions =>
                    /\ r.status = "ValueError"
                    /\ r.calls = <<>>
                    /\ issued' = issued
                    /\ delegated_issued' = delegated_issued
              /\ (\E i \in DOMAIN r.calls : ~r.calls[i].ok) => r.status = "raised"
              /\ r.status # "returned" => sessions' = sessions ]_vars

\* A code exchange was rejected while a session holds a token.
C13_Witness ==
    /\ cb_result.status = "raised"
    /\ Len(cb_result.calls) >= 1
    /\ cb_result.calls[Len(cb_result.calls)].call = "code_exchange"
    /\ ~cb_result.calls[Len(cb_result.calls)].ok
    /\ callback_ok # {}
    /\ cb_result.state \notin callback_ok

\* C14: a handle_callback that returned made at most two calls, the actor-token
\* acquisition (if the broker had no actor token) before the code exchange; the
\* code exchange carried the callback's code, the PKCE verifier of the session
\* named by state and the broker's actor token, and it succeeded; the token
\* stored on the session is the one that exchange returned.
C14_CallbackOrder ==
    cb_result.status = "returned" =>
        LET r == cb_result
            n == Len(r.calls)
            x == r.calls[n]
        IN  /\ n \in {1, 2}
            /\ x.call = "code_exchange"
            /\ x.ok
            /\ x.code = r.code
            /\ x.code_verifier = sessions[r.state].pkce
            /\ x.actor_token # 0
            /\ x.actor_token = broker_actor_token.token
            /\ n = 2 =>
                  /\ r.calls[1].call = "get_actor_token"
                  /\ r.calls[1].ok
                  /\ r.calls[1].actor_token = x.actor_token
            /\ x.access_token # NoDelegatedToken
            /\ sessions[r.state].delegated_token = x.access_token

\* The first callback of the process, for the second session, returned.
C14_Witness ==
    /\ cb_result.status = "returned"
    /\ cb_result.state = 2
    /\ Len(cb_result.calls) = 2
    /\ sessions[2].delegated_token # NoDelegatedToken
    /\ sessions[1].delegated_token = NoDelegatedToken

\* C17 (as claimed): the actor token handle_callback presents in the code
\* exchange has not expired (the safety margin aside).
C17_NoExpiredActorToken ==
    [][ ( /\ callbacks' = callbacks + 1
          /\ \E i \in DOMAIN cb_result'.calls : cb_result'.calls[i].call = "code_exchange" )
        => broker_actor_token'.expires_at > now ]_vars

\* C34: create_session appends one session, with a PKCE pair of its own and no
\* token, and changes no stored session; handle_callback(state = s) changes no
\* session other than s; no step removes a session or changes a PKCE pair.
C34_SessionsIsolated ==
    [][ /\ Len(sessions') >= Len(sessions)
        /\ \A id \in DOMAIN sessions : sessions'[id].pkce = sessions[id].pkce
        /\ callbacks' # callbacks =>
              /\ Len(sessions') = Len(sessions)
              /\ \A id \in DOMAIN sessions :
                    id # cb_result'.state => sessions'[id] = sessions[id]
        /\ Len(sessions') > Len(sessions) =>
              /\ Len(sessions') = Len(sessions) + 1
              /\ \A id \in DOMAIN sessions : sessions'[id] = sessions[id]
              /\ sessions'[Len(sessions')].delegated_token = NoDelegatedToken
              /\ \A id \in DOMAIN sessions :
                    sessions[id].pkce # sessions'[Len(sessions')].pkce ]_vars

\* Two sessions, the second logged in, the first untouched.
C34_Witness ==
    /\ Len(sessions) = 2
    /\ sessions[1].delegated_token = NoDelegatedToken
    /\ sessions[2].delegated_token # NoDelegatedToken
    /\ cb_result.state = 2
    /\ cb_result.status = "returned"

----------------------------------------------------------------------------
(***************************************************************************)
(* Properties of SpecExchange.                                             *)
(***************************************************************************)

\* C18 (as claimed): exchange_token_for_agent starts no actor-token acquisition
\* for an agent while the actor token of an earlier acquisition for that agent
\* is still valid.
C18_OneAcquisitionPerIdentity ==
    \A i, j \in 1 .. Len(agent_fetches) :
        (i < j /\ agent_fetches[i].agent_key = agent_fetches[j].agent_key)
            => agent_fetches[i].expires_at <= agent_fetches[j].at

\* C19: a call of exchange_token_for_agent for an agent_key that is not
\* registered, or has no agent_id, ends with an error and starts no actor-token
\* acquisition and sends no token-exchange request; a call whose exchange the
\* identity server rejects ends with an error and returns no token.
C19_ExchangeFailures ==
    [][ LET r == ex_result'
        IN  /\ ( r.status # "none"
                 /\ ( \/ r.agent_key \notin DOMAIN agents_config
                      \/ ( /\ r.agent_key \in DOMAIN agents_config
                           /\ agents_config[r.agent_key].agent_id = "" ) ) )
                 => /\ r.status = "ValueError"
                    /\ r.token = 0
                    /\ agent_fetches' = agent_fetches
                    /\ sent' = sent
                    /\ issued' = issued
            /\ r.rejected => (r.status = "raised" /\ r.token = 0)
            /\ r.status = "returned" => r.token # 0 ]_vars

\* The identity server rejected an exchange after it had accepted one.
C19_Witness ==
    /\ ex_result.status = "raised"
    /\ ex_result.rejected
    /\ Len(sent) = 2
    /\ Len(audit_log) = 1

\* C20 (as claimed): after a failed exchange_token_for_agent the last entry of
\* the audit log is the one of that call, with success = false.
C20_FailuresAudited ==
    ex_result.status \in {"raised", "ValueError"} =>
        /\ audit_log # <<>>
        /\ audit_log[Len(audit_log)].operation = "token_exchange"
        /\ audit_log[Len(audit_log)].target_service = ex_result.agent_key
        /\ ~audit_log[Len(audit_log)].success

----------------------------------------------------------------------------
(***************************************************************************)
(* Properties of SpecRun.                                                  *)
(***************************************************************************)

\* The session whose token a chat request takes holds a token that has not expired.
DemoSessionLive ==
    /\ SessionsWithToken # {}
    /\ sessions[Max(SessionsWithToken)].token_expires_at > now

\* C11 (as claimed): a run requested for a session whose delegated token is
\* absent or has expired ends with an authentication error and never enters
\* discovery: the workflow is entered only with a token that has not expired.
C11_ExpiredSessionIsRefused ==
    [][ (pc = "start" /\ pc' = "discover_agents") => DemoSessionLive ]_vars

----------------------------------------------------------------------------
(***************************************************************************)
(* Properties of SpecRequests.                                             *)
(***************************************************************************)

\* C27 (as claimed): every step of the run of a request that carried a bearer
\* token exchanges that token, and no other.
C27_RunUsesOwnToken ==
    \A r \in Requests : r_bearer[r] # 0 => r_exchanged[r] \subseteq {r_bearer[r]}

\* C28 (as claimed): once cancel was called for a request whose run is inside a
\* step, the run starts no further step.
C28_NoStepAfterCancel ==
    [][ \A r \in Requests : r_cancel[r] # <<>> => r_started'[r] = r_started[r] ]_vars

----------------------------------------------------------------------------
(***************************************************************************)
(* Properties of SpecInvoke.                                               *)
(***************************************************************************)

\* agent_key with one "_agent" at its end removed.
StripAgentSuffix(agent_key) ==
    IF Len(agent_key) > 1 /\ agent_key[Len(agent_key)] = "agent"
    THEN SubSeq(agent_key, 1, Len(agent_key) - 1)
    ELSE agent_key

\* C29 (as claimed): the scopes of a step are those configured for its agent
\* key; when none are configured they are {prefix}:read and {prefix}:write,
\* prefix being the agent key without one "_agent" at its end.
C29_ScopesOfStep ==
    i_step > 0 =>
        LET agent_key == i_last.agent_key
            section == i_last.agents_section
        IN  i_last.target_scopes =
                IF agent_key \in DOMAIN section /\ section[agent_key].scopes # <<>>
                THEN section[agent_key].scopes
                ELSE << [prefix |-> StripAgentSuffix(agent_key), access |-> "read"],
                        [prefix |-> StripAgentSuffix(agent_key), access |-> "write"] >>

\* C30: every request posted to an agent carries the token the exchange of its
\* own step returned, which is neither the token of the user nor the token of
\* another step; a step whose exchange raised posts nothing.
C30_BearerIsStepToken ==
    /\ Len(i_tokens) = i_step
    /\ \A n \in 1 .. Len(i_posts) :
          LET post == i_posts[n]
          IN  /\ post.step \in 1 .. i_step
              /\ i_tokens[post.step] # 0
              /\ post.bearer = i_tokens[post.step]
              /\ post.bearer \notin SourceTokens
              /\ \A k \in 1 .. i_step : k # post.step => post.bearer # i_tokens[k]
    /\ \A k \in 1 .. i_step :
          i_tokens[k] = 0 => \A n \in 1 .. Len(i_posts) : i_posts[n].step # k

\* Of two steps the first exchange raised and nothing was posted, the second
\* posted its own token.
C30_Witness ==
    /\ i_step = 2
    /\ i_tokens[1] = 0
    /\ i_tokens[2] # 0
    /\ Len(i_posts) = 1
    /\ i_posts[1].step = 2

----------------------------------------------------------------------------
(***************************************************************************)
(* Properties of SpecAuth.                                                 *)
(***************************************************************************)
\* C35: get_token never returns an expired token: a lookup that finds an
\* expired entry removes it and returns None, and no lookup changes the
\* entry of another key.
C35_ExpiredNeverReturned ==
    [][ \A q \in TokenRequests :
          (q_pc[q] = "idle" /\ q_pc'[q] # "idle")
              => LET key == create_cache_key(q_config'[q])
                     cached == token_store[key]
                 IN  /\ q_lookup'[q].token # NoOAuthToken
                            => ~is_expired(q_lookup'[q].token, clock)
                     /\ (cached # NoOAuthToken /\ is_expired(cached, clock))
                            => /\ q_lookup'[q].outcome = "returned"
                               /\ q_lookup'[q].token = NoOAuthToken
                               /\ token_store'[key] = NoOAuthToken
                     /\ \A other \in CacheKeys \ {key} :
                            token_store'[other] = token_store[other] ]_vars

\* C36: process_callback fetches a token only for a state that has a pending
\* entry and consumes that entry; for a state without one it raises
\* ValueError, fetches nothing and leaves every entry and future as it was.
C36_CallbackNeedsPending ==
    [][ \A k \in CallbackCalls :
          (k_pc[k] = "idle" /\ k_pc'[k] # "idle")
              => LET state == k_state'[k]
                 IN  /\ k_pc'[k] = "fetching" => state \in DOMAIN pending_auths
                     /\ state \notin DOMAIN pending_auths'
                     /\ state \notin DOMAIN pending_auths
                            => /\ k_pc'[k] = "done"
                               /\ k_result'[k] = Raised("ValueError")
                               /\ k_token'[k] = NoOAuthToken
                               /\ pending_auths' = pending_auths
                               /\ futures' = futures
                     /\ \A other \in DOMAIN pending_auths \ {state} :
                            /\ other \in DOMAIN pending_auths'
                            /\ pending_auths'[other] = pending_auths[other]
                            /\ futures'[other] = futures[other] ]_vars

\* C37: the call whose authorization timed out returns None, its entry is
\* gone, its future is cancelled and nothing is cached; a callback that comes
\* for its state afterwards is rejected without a fetch.
C37_TimeoutReturnsNone ==
    /\ [][ \A q \in TokenRequests :
             (q_pc[q] = "timed_out" /\ q_pc'[q] = "returned")
                 => /\ q_result'[q] = Returned(NoOAuthToken)
                    /\ q_state[q] \notin DOMAIN pending_auths'
                    /\ futures'[q_state[q]].status = "cancelled"
                    /\ token_store' = token_store ]_vars
    /\ [][ \A k \in CallbackCalls, q \in TokenRequests :
             (/\ k_pc[k] = "idle" /\ k_pc'[k] # "idle"
              /\ k_state'[k] = q_state[q]
              /\ q_pc[q] = "returned"
              /\ futures[q_state[q]].status = "cancelled")
                 => /\ k_pc'[k] = "done"
                    /\ k_result'[k].kind = "raised"
                    /\ k_token'[k] = NoOAuthToken ]_vars

\* C38: of a callback and the timeout of the same state exactly one wins: a
\* token process_callback has fetched is the result of the future the waiting
\* call awaits, and a call that timed out has no callback that fetched.
C38_ExactlyOneWins ==
    impl = "autogen" =>
        /\ \A k \in CallbackCalls :
              (k_pc[k] = "done" /\ k_token[k] # NoOAuthToken)
                  => futures[k_state[k]] = [status |-> "result", token |-> k_token[k]]
        /\ \A q \in TokenRequests :
              (q_pc[q] = "returned" /\ q_state[q] # 0
               /\ futures[q_state[q]].status = "result")
                  => q_result[q] \in {Returned(futures[q_state[q]].token),
                                      Returned(NoOAuthToken)}

\* C39: a token from the cache goes only to a request with the scope set, the
\* token type and the resource of the request it was obtained for.
C39_CacheHitMatchesRequest ==
    \A q \in TokenRequests :
        (q_pc[q] # "idle" /\ q_lookup[q].token # NoOAuthToken)
            => LET issued_for == q_lookup[q].token.issued_for
               IN  /\ frozenset(issued_for.scopes) = frozenset(q_config[q].scopes)
                   /\ issued_for.token_type = q_config[q].token_type
                   /\ issued_for.resource = q_config[q].resource

====
